---- MODULE Spec2Model ----
(***************************************************************************)
(* Model of the mail-settings reconciliation engine.                       *)
(*                                                                         *)
(* A string is a sequence of character tokens.  The tokens are             *)
(*   "a" "b" "x" "y" "1"  plain ASCII characters                           *)
(*   "FW_a"     U+FF41 FULLWIDTH LATIN SMALL LETTER A (NFKC -> "a")        *)
(*   "e" "ACUTE" "E_ACUTE"  U+0065, U+0301, U+00E9 (NFKC composes)         *)
(*   "ZWSP"     U+200B ZERO WIDTH SPACE (not white space in JavaScript)    *)
(*   "BOM"      U+FEFF (zero width AND JavaScript white space)             *)
(*   "SP" "NL"  U+0020 and U+000A                                          *)
(* A sheet is the array returned by getDataRange().getDisplayValues():     *)
(* a sequence of rows, each row a sequence of cells, each cell a string.   *)
(* A JavaScript Map is a sequence of [key, entry] records in insertion     *)
(* order with pairwise distinct keys.                                      *)
(***************************************************************************)
EXTENDS Integers, Sequences, FiniteSets, TLC

VARIABLES
    updatedSheet,       \* data of the current mail-settings sheet
    latestBackupSheet,  \* data of the latest backup sheet
    pc,                 \* which of the operations have been applied
    updatedDataMap,     \* extractDataAsMap(updatedSheet)
    updatedThrew,       \* extractDataAsMap(updatedSheet) threw
    backupDataMap,      \* extractDataAsMap(latestBackupSheet)
    backupThrew,        \* extractDataAsMap(latestBackupSheet) threw
    duplicateErrors,    \* findDuplicates(updatedSheet)
    duplicatesThrew,    \* findDuplicates(updatedSheet) threw
    changes,            \* findChanges(updatedDataMap, backupDataMap)
    emailLines,         \* the lines of the argument of areEmailsValid
    emailsValid,        \* areEmailsValid(emailString)
    emailFormatErrors,  \* findInvalidEmails(updatedDataMap)
    candidateData,      \* candidate rows given to identifyNewTeamDuplicates
    masterMap,          \* master map given to identifyNewTeamDuplicates
    teamNameIdx,        \* column index given to identifyNewTeamDuplicates
    newTeamDuplicates,  \* identifyNewTeamDuplicates(candidateData, masterMap, teamNameIdx)
    newRecordList,      \* new records given to checkTeamNameDuplicates
    masterTeamList,     \* master list given to checkTeamNameDuplicates
    duplicateResults,   \* checkTeamNameDuplicates(newRecordList, masterTeamList)
    normInput,          \* the argument of normalize
    normOnce,           \* normalize(normInput)
    normTwice,          \* normalize(normalize(normInput))
    resultsSheet,       \* the results sheet of the spreadsheet: [exists, rows]
    columnIndex,        \* a column index: an argument or a result
    columnLetter,       \* a column letter string, as character codes
    backIndex,          \* columnLetterToIndex(columnIndexToLetter(columnIndex))
    backLetter,         \* columnIndexToLetter(columnLetterToIndex(columnLetter))
    cleanedSheet,       \* the cleaned source sheet: [exists, rows]
    targetSheet,        \* the mail-settings sheet: [exists, rows]
    readSource,         \* updateMailSettings_refactored: sourceData
    readTarget,         \* updateMailSettings_refactored: targetData
    backupSheets,       \* the contents of the backup sheets, oldest first
    backupSheetName,    \* the position in backupSheets of this run's backup, 0 before
    syncResult,         \* updateMailSettings_refactored: result, [finalData, stats]
    procurementSheet,   \* the procurement sheet: [exists, headers, rows], rows from dataStartRow
    historySheet,       \* the history sheet: [exists, rows], rows below the header
    lastOrderNumber,    \* runIncrementalDuplicateCheck: lastOrderNumber
    lastTeamName,       \* runIncrementalDuplicateCheck: lastTeamName
    duplicateReport,    \* the rows of the duplicate report sheet
    runCount,           \* the number of runs started so far
    newRecordsLog       \* for each run that read the sheet: [rowNums, rowCount, recorded]

compareVars == <<updatedSheet, latestBackupSheet, updatedDataMap, updatedThrew,
                 backupDataMap, backupThrew, duplicateErrors, duplicatesThrew, changes>>

emailVars == <<emailLines, emailsValid, emailFormatErrors>>

crossVars == <<candidateData, masterMap, teamNameIdx, newTeamDuplicates>>

matcherVars == <<newRecordList, masterTeamList, duplicateResults>>

normVars == <<normInput, normOnce, normTwice>>

\* the variables of the operations outside the four families above
reportVars == <<resultsSheet>>

utilVars == <<columnIndex, columnLetter, backIndex, backLetter>>

syncVars ==
    <<cleanedSheet, targetSheet, readSource, readTarget, backupSheets,
      backupSheetName, syncResult>>

incVars ==
    <<procurementSheet, historySheet, lastOrderNumber, lastTeamName, duplicateReport,
      runCount, newRecordsLog>>

laterVars == <<normVars, reportVars, utilVars, syncVars, incVars>>

vars == <<pc, compareVars, emailVars, crossVars, matcherVars, laterVars>>

\* the variables of an operation that is not part of the run
EmailIdle == emailLines = <<>> /\ emailsValid = TRUE /\ emailFormatErrors = <<>>

CrossIdle ==
    /\ candidateData = <<>> /\ masterMap = <<>>
    /\ teamNameIdx = 0 /\ newTeamDuplicates = <<>>

MatcherIdle ==
    newRecordList = <<>> /\ masterTeamList = <<>> /\ duplicateResults = <<>>

NormIdle == normInput = <<>> /\ normOnce = <<>> /\ normTwice = <<>>

\* the spreadsheet has no results sheet
NO_SHEET == [exists |-> FALSE, rows |-> <<>>]

ReportIdle == resultsSheet = NO_SHEET

UtilIdle ==
    columnIndex = 0 /\ columnLetter = <<>> /\ backIndex = 0 /\ backLetter = <<>>

NO_RESULT == [finalData |-> <<>>, stats |-> [updated |-> 0, appended |-> 0, deleted |-> 0]]

SyncIdle ==
    /\ cleanedSheet = NO_SHEET
    /\ targetSheet = NO_SHEET
    /\ readSource = <<>>
    /\ readTarget = <<>>
    /\ backupSheets = <<>>
    /\ backupSheetName = 0
    /\ syncResult = NO_RESULT

IncIdle ==
    /\ procurementSheet = [exists |-> FALSE, headers |-> <<>>, rows |-> <<>>]
    /\ historySheet = NO_SHEET
    /\ lastOrderNumber = <<>>
    /\ lastTeamName = <<>>
    /\ duplicateReport = <<>>
    /\ runCount = 0
    /\ newRecordsLog = <<>>

LaterIdle == NormIdle /\ ReportIdle /\ UtilIdle /\ SyncIdle /\ IncIdle

----------------------------------------------------------------------------
(* Bounds *)

MaxRows == 2

----------------------------------------------------------------------------
(* Column-name contract *)

COLUMN_DEF ==
    [TEAM_NAME  |-> <<"TEAM_NAME">>,
     TO         |-> <<"TO">>,
     CC         |-> <<"CC">>,
     PERIOD     |-> <<"PERIOD">>,
     START_TIME |-> <<"START_TIME">>,
     END_TIME   |-> <<"END_TIME">>,
     HOLIDAY    |-> <<"HOLIDAY">>]

----------------------------------------------------------------------------
(* String primitives of the JavaScript runtime *)

\* WhiteSpace and LineTerminator code points: String.prototype.trim and \s
IsWhiteSpace(c) == c \in {"SP", "NL", "BOM"}

\* the character class [\u200B-\u200D\uFEFF]
IsZeroWidth(c) == c \in {"ZWSP", "ZWNJ", "ZWJ", "BOM"}

\* compatibility decomposition of one character
Decompose(c) ==
    CASE c = "FW_a"    -> <<"a">>
      [] c = "E_ACUTE" -> <<"e", "ACUTE">>
      [] OTHER         -> <<c>>

RECURSIVE DecomposeAll(_)
DecomposeAll(s) ==
    IF s = <<>> THEN <<>> ELSE Decompose(Head(s)) \o DecomposeAll(Tail(s))

\* canonical composition: a starter directly followed by its combining mark
RECURSIVE ComposeAll(_)
ComposeAll(s) ==
    IF s = <<>> THEN <<>>
    ELSE IF Len(s) >= 2 /\ s[1] = "e" /\ s[2] = "ACUTE"
         THEN <<"E_ACUTE">> \o ComposeAll(SubSeq(s, 3, Len(s)))
         ELSE <<Head(s)>> \o ComposeAll(Tail(s))

\* String.prototype.normalize('NFKC')
NFKC(s) == ComposeAll(DecomposeAll(s))

\* .replace(/[\u200B-\u200D\uFEFF]/g, '')
RECURSIVE StripZeroWidth(_)
StripZeroWidth(s) ==
    IF s = <<>> THEN <<>>
    ELSE IF IsZeroWidth(Head(s)) THEN StripZeroWidth(Tail(s))
         ELSE <<Head(s)>> \o StripZeroWidth(Tail(s))

\* .replace(/\s/g, '')
RECURSIVE StripWhiteSpace(_)
StripWhiteSpace(s) ==
    IF s = <<>> THEN <<>>
    ELSE IF IsWhiteSpace(Head(s)) THEN StripWhiteSpace(Tail(s))
         ELSE <<Head(s)>> \o StripWhiteSpace(Tail(s))

RECURSIVE TrimStart(_)
TrimStart(s) ==
    IF s = <<>> THEN <<>>
    ELSE IF IsWhiteSpace(Head(s)) THEN TrimStart(Tail(s)) ELSE s

RECURSIVE TrimEnd(_)
TrimEnd(s) ==
    IF s = <<>> THEN <<>>
    ELSE IF IsWhiteSpace(s[Len(s)]) THEN TrimEnd(SubSeq(s, 1, Len(s) - 1)) ELSE s

\* String.prototype.trim
Trim(s) == TrimEnd(TrimStart(s))

\* truthiness of a string value: if (str)
Truthy(s) == s # <<>>

\* Array.prototype.indexOf: 0-based index of the first match, -1 when absent
IndexOf(arr, v) ==
    IF \E i \in 1..Len(arr) : arr[i] = v
    THEN (CHOOSE i \in 1..Len(arr) :
              arr[i] = v /\ \A j \in 1..(i - 1) : arr[j] # v) - 1
    ELSE -1

\* row[idx] for a 0-based idx inside the row
At(row, idx) == row[idx + 1]

\* a mutation of AtOrEmpty: the index is taken as a 1-based column number
AtOrEmptyOneBased(row, idx) ==
    IF idx >= 1 /\ idx <= Len(row) THEN row[idx] ELSE <<>>

\* row[idx] || '' (undefined when idx is -1 or outside the row)
AtOrEmpty(row, idx) ==
    IF idx >= 0 /\ idx < Len(row) THEN row[idx + 1] ELSE <<>>

----------------------------------------------------------------------------
(* JavaScript Map *)

MapHas(m, k) == \E i \in 1..Len(m) : m[i].key = k

MapGet(m, k) == m[CHOOSE i \in 1..Len(m) : m[i].key = k].entry

MapKeys(m) == {m[i].key : i \in 1..Len(m)}

\* Map.prototype.set: replaces the value in place, or appends a new key
MapSet(m, k, e) ==
    IF MapHas(m, k)
    THEN [i \in 1..Len(m) |-> IF m[i].key = k THEN [key |-> k, entry |-> e] ELSE m[i]]
    ELSE Append(m, [key |-> k, entry |-> e])

----------------------------------------------------------------------------
(* extractDataAsMap *)

\* header-to-field binding, once per dataset
Indices(headers) ==
    [teamName  |-> IndexOf(headers, COLUMN_DEF.TEAM_NAME),
     to        |-> IndexOf(headers, COLUMN_DEF.TO),
     cc        |-> IndexOf(headers, COLUMN_DEF.CC),
     period    |-> IndexOf(headers, COLUMN_DEF.PERIOD),
     startTime |-> IndexOf(headers, COLUMN_DEF.START_TIME),
     endTime   |-> IndexOf(headers, COLUMN_DEF.END_TIME),
     holiday   |-> IndexOf(headers, COLUMN_DEF.HOLIDAY)]

\* a mutation of MissingMandatory: the CC column is not required
MissingMandatoryWithoutCc(indices) ==
    indices.teamName = -1 \/ indices.to = -1

MissingMandatory(indices) ==
    indices.teamName = -1 \/ indices.to = -1 \/ indices.cc = -1

Normalize(str) == Trim(StripZeroWidth(NFKC(str)))

CheckCleaning(raw, cleaned) ==
    IF ~Truthy(raw) THEN FALSE
    ELSE StripWhiteSpace(raw) # StripWhiteSpace(cleaned)

\* indices.f !== -1 ? normalize(row[indices.f]) : ''
OptionalField(row, idx) ==
    IF idx # -1 THEN Normalize(At(row, idx)) ELSE <<>>

\* indices.f !== -1 ? String(row[indices.f]) : ''
RawField(row, idx) ==
    IF idx # -1 THEN At(row, idx) ELSE <<>>

RowEntry(row, indices) ==
    LET rawTo   == RawField(row, indices.to)
        rawCc   == RawField(row, indices.cc)
        cleanTo == Normalize(rawTo)
        cleanCc == Normalize(rawCc)
        cleanedColumns ==
            (IF CheckCleaning(rawTo, cleanTo) THEN <<"TO">> ELSE <<>>)
            \o (IF CheckCleaning(rawCc, cleanCc) THEN <<"CC">> ELSE <<>>)
    IN  [to          |-> cleanTo,
         cc          |-> cleanCc,
         period      |-> OptionalField(row, indices.period),
         startTime   |-> OptionalField(row, indices.startTime),
         endTime     |-> OptionalField(row, indices.endTime),
         holiday     |-> OptionalField(row, indices.holiday),
         cleanedCols |-> cleanedColumns]

\* a mutation of StoreEntry: an existing key keeps its first record
StoreEntryKeepFirst(dataMap, normalizedTeamName, entry) ==
    IF MapHas(dataMap, normalizedTeamName) THEN dataMap
    ELSE MapSet(dataMap, normalizedTeamName, entry)

\* dataMap.set(normalizedTeamName, entry)
StoreEntry(dataMap, normalizedTeamName, entry) ==
    MapSet(dataMap, normalizedTeamName, entry)

\* a mutation of TeamKey: the key is the raw cell
TeamKeyRaw(rawTeamName) == rawTeamName

\* const normalizedTeamName = normalize(rawTeamName)
TeamKey(rawTeamName) == Normalize(rawTeamName)

\* the loop over the data rows; i is the 0-based row index
RECURSIVE ExtractRows(_, _, _, _)
ExtractRows(data, indices, i, dataMap) ==
    IF i >= Len(data) THEN dataMap
    ELSE LET row         == data[i + 1]
             rawTeamName == At(row, indices.teamName)
         IN  ExtractRows(data, indices, i + 1,
                 IF Truthy(rawTeamName)
                 THEN StoreEntry(dataMap, TeamKey(rawTeamName), RowEntry(row, indices))
                 ELSE dataMap)

\* the result is [threw, map]; map is empty when threw
ExtractDataAsMap(data) ==
    IF Len(data) = 0 THEN [threw |-> FALSE, map |-> <<>>]
    ELSE LET indices == Indices(data[1])
         IN  IF MissingMandatory(indices)
             THEN [threw |-> TRUE, map |-> <<>>]
             ELSE [threw |-> FALSE, map |-> ExtractRows(data, indices, 1, <<>>)]

----------------------------------------------------------------------------
(* findDuplicates *)

\* a mutation of TeamCount: the counter of a name starts at 1 instead of 0
TeamCountFromOne(data, teamNameIndex, trimmedName) ==
    1 + Cardinality({i \in 2..Len(data) :
                        /\ Truthy(At(data[i], teamNameIndex))
                        /\ Trim(At(data[i], teamNameIndex)) = trimmedName})

\* pass 1: teamCounts.get(trimmedName)
TeamCount(data, teamNameIndex, trimmedName) ==
    Cardinality({i \in 2..Len(data) :
                    /\ Truthy(At(data[i], teamNameIndex))
                    /\ Trim(At(data[i], teamNameIndex)) = trimmedName})

\* pass 2; i is the 0-based row index
RECURSIVE DuplicateRows(_, _, _, _, _, _, _)
DuplicateRows(data, teamNameIndex, toIndex, ccIndex, i, processedDuplicates, duplicateRows) ==
    IF i >= Len(data) THEN duplicateRows
    ELSE LET row         == data[i + 1]
             rawTeamName == At(row, teamNameIndex)
             trimmedName == Trim(rawTeamName)
             count       == TeamCount(data, teamNameIndex, trimmedName)
         IN  IF ~Truthy(rawTeamName)
             THEN DuplicateRows(data, teamNameIndex, toIndex, ccIndex, i + 1,
                                processedDuplicates, duplicateRows)
             ELSE IF count > 1 /\ trimmedName \notin processedDuplicates
             THEN DuplicateRows(data, teamNameIndex, toIndex, ccIndex, i + 1,
                                processedDuplicates \cup {trimmedName},
                                Append(duplicateRows,
                                       <<trimmedName, AtOrEmpty(row, toIndex),
                                         AtOrEmpty(row, ccIndex), "DUPLICATE",
                                         <<ToString(count), "TIMES">> >>))
             ELSE DuplicateRows(data, teamNameIndex, toIndex, ccIndex, i + 1,
                                processedDuplicates, duplicateRows)

\* the result is [threw, rows]
FindDuplicates(data) ==
    IF Len(data) <= 1 THEN [threw |-> FALSE, rows |-> <<>>]
    ELSE LET headers       == data[1]
             teamNameIndex == IndexOf(headers, COLUMN_DEF.TEAM_NAME)
             toIndex       == IndexOf(headers, COLUMN_DEF.TO)
             ccIndex       == IndexOf(headers, COLUMN_DEF.CC)
         IN  IF teamNameIndex = -1
             THEN [threw |-> TRUE, rows |-> <<>>]
             ELSE [threw |-> FALSE,
                   rows  |-> DuplicateRows(data, teamNameIndex, toIndex, ccIndex,
                                           1, {}, <<>>)]

----------------------------------------------------------------------------
(* findChanges *)

\* Object.keys(HEADER_LABEL_MAP), in insertion order
HEADER_KEYS == <<"period", "startTime", "endTime", "holiday">>

\* the remark `column: <label>` of one optional field
ColumnRemark(key) ==
    CASE key = "period"    -> "COLUMN:PERIOD"
      [] key = "startTime" -> "COLUMN:START_TIME"
      [] key = "endTime"   -> "COLUMN:END_TIME"
      [] key = "holiday"   -> "COLUMN:HOLIDAY"

\* the remark `invisible characters removed (<cleanedCols joined by ', '>)`
CleanedRemark(cleanedCols) ==
    CASE cleanedCols = <<"TO">>       -> "CLEANED(TO)"
      [] cleanedCols = <<"CC">>       -> "CLEANED(CC)"
      [] cleanedCols = <<"TO", "CC">> -> "CLEANED(TO, CC)"

\* Array.prototype.join: the items with the separator between them
RECURSIVE Join(_, _)
Join(list, sep) ==
    IF Len(list) <= 1 THEN list
    ELSE <<Head(list), sep>> \o Join(Tail(list), sep)

\* remarksList after the cleanedCols test
CleaningRemarks(updatedEntry) ==
    IF Len(updatedEntry.cleanedCols) > 0
    THEN <<CleanedRemark(updatedEntry.cleanedCols)>>
    ELSE <<>>

\* a mutation of CreatedRow: a new key is reported as an update
CreatedRowAsUpdate(teamName, updatedEntry) ==
    <<teamName, updatedEntry.to, updatedEntry.cc, "U",
      Join(CleaningRemarks(updatedEntry), ",")>>

CreatedRow(teamName, updatedEntry) ==
    <<teamName, updatedEntry.to, updatedEntry.cc, "C",
      Join(CleaningRemarks(updatedEntry), ",")>>

\* a mutation of DifferingSettings: every field is compared with the
\* baseline's period
DifferingSettingsAgainstPeriod(updatedEntry, backupEntry) ==
    LET Differs(key) == updatedEntry[key] # backupEntry.period
    IN  SelectSeq(HEADER_KEYS, Differs)

\* the optional fields whose value differs, in HEADER_LABEL_MAP order
DifferingSettings(updatedEntry, backupEntry) ==
    LET Differs(key) == updatedEntry[key] # backupEntry[key]
    IN  SelectSeq(HEADER_KEYS, Differs)

\* a mutation of IsChanged: an auto-cleaned record counts as changed
IsChangedOrCleaned(updatedEntry, backupEntry) ==
    \/ Len(updatedEntry.cleanedCols) > 0
    \/ updatedEntry.to # backupEntry.to
    \/ updatedEntry.cc # backupEntry.cc
    \/ DifferingSettings(updatedEntry, backupEntry) # <<>>

IsChanged(updatedEntry, backupEntry) ==
    \/ updatedEntry.to # backupEntry.to
    \/ updatedEntry.cc # backupEntry.cc
    \/ DifferingSettings(updatedEntry, backupEntry) # <<>>

\* a mutation of ChangeType: empty addresses alone make a deletion
ChangeTypeByMailOnly(updatedEntry, backupEntry) ==
    IF updatedEntry.to = <<>> /\ updatedEntry.cc = <<>> THEN "D" ELSE "U"

ChangeType(updatedEntry, backupEntry) ==
    LET isMailEmpty      == updatedEntry.to = <<>> /\ updatedEntry.cc = <<>>
        isSettingChanged == \E i \in 1..Len(HEADER_KEYS) :
                                updatedEntry[HEADER_KEYS[i]] # backupEntry[HEADER_KEYS[i]]
    IN  IF isMailEmpty /\ ~isSettingChanged THEN "D" ELSE "U"

\* the rows pushed for one key of the current map (none or one)
CurrentRow(teamName, updatedEntry, backupMap) ==
    IF ~MapHas(backupMap, teamName)
    THEN <<CreatedRow(teamName, updatedEntry)>>
    ELSE LET backupEntry == MapGet(backupMap, teamName)
             settings    == DifferingSettings(updatedEntry, backupEntry)
             remarksList == CleaningRemarks(updatedEntry)
                            \o [j \in 1..Len(settings) |-> ColumnRemark(settings[j])]
         IN  IF IsChanged(updatedEntry, backupEntry)
             THEN << <<teamName, updatedEntry.to, updatedEntry.cc,
                       ChangeType(updatedEntry, backupEntry),
                       Join(remarksList, "NL")>> >>
             ELSE <<>>

\* the current-driven loop; i is the 1-based position in the map
RECURSIVE CurrentRows(_, _, _)
CurrentRows(updatedMap, backupMap, i) ==
    IF i > Len(updatedMap) THEN <<>>
    ELSE CurrentRow(updatedMap[i].key, updatedMap[i].entry, backupMap)
         \o CurrentRows(updatedMap, backupMap, i + 1)

\* a mutation of ProcessedTeams: no key is ever recorded as processed
ProcessedTeamsForgotten(updatedMap) == {}

\* processedTeams after the current-driven loop
ProcessedTeams(updatedMap) == MapKeys(updatedMap)

\* the baseline-only loop
RECURSIVE BaselineOnlyRows(_, _, _)
BaselineOnlyRows(backupMap, processedTeams, i) ==
    IF i > Len(backupMap) THEN <<>>
    ELSE (IF backupMap[i].key \notin processedTeams
          THEN << <<backupMap[i].key, <<>>, <<>>, "D", <<>> >> >>
          ELSE <<>>)
         \o BaselineOnlyRows(backupMap, processedTeams, i + 1)

FindChanges(updatedMap, backupMap) ==
    CurrentRows(updatedMap, backupMap, 1)
    \o BaselineOnlyRows(backupMap, ProcessedTeams(updatedMap), 1)

----------------------------------------------------------------------------
(* Input sheets *)

EMPTY == <<>>

\* a data row given by field, laid out under a header row
Fields(team, to, cc, period, startTime, endTime, holiday) ==
    [TEAM_NAME |-> team, TO |-> to, CC |-> cc, PERIOD |-> period,
     START_TIME |-> startTime, END_TIME |-> endTime, HOLIDAY |-> holiday]

RenderRow(headers, fields) ==
    [c \in 1..Len(headers) |-> fields[headers[c][1]]]

Sheet(headers, rows) ==
    <<headers>> \o [r \in 1..Len(rows) |-> RenderRow(headers, rows[r])]

SeqsUpTo(S, n) == UNION {[1..k -> S] : k \in 0..n}

FullHeader ==
    <<COLUMN_DEF.TEAM_NAME, COLUMN_DEF.TO, COLUMN_DEF.CC, COLUMN_DEF.PERIOD,
      COLUMN_DEF.START_TIME, COLUMN_DEF.END_TIME, COLUMN_DEF.HOLIDAY>>

Layouts ==
    {FullHeader,
     <<COLUMN_DEF.TEAM_NAME, COLUMN_DEF.TO, COLUMN_DEF.CC>>,
     <<COLUMN_DEF.TO, COLUMN_DEF.TEAM_NAME, COLUMN_DEF.HOLIDAY, COLUMN_DEF.CC>>,
     <<COLUMN_DEF.TO, COLUMN_DEF.CC>>,
     <<COLUMN_DEF.TEAM_NAME, COLUMN_DEF.CC, COLUMN_DEF.PERIOD>>,
     <<COLUMN_DEF.TEAM_NAME, COLUMN_DEF.TO>>}

\* rows of two teams that differ field by field
DiffPool ==
    {Fields(<<"a">>, <<"x">>, <<"y">>, EMPTY, EMPTY, EMPTY, EMPTY),
     Fields(<<"a">>, EMPTY, EMPTY, EMPTY, EMPTY, EMPTY, EMPTY),
     Fields(<<"a">>, <<"x", "ZWSP">>, <<"y">>, EMPTY, EMPTY, EMPTY, EMPTY),
     Fields(<<"a">>, EMPTY, EMPTY, <<"1">>, EMPTY, EMPTY, EMPTY),
     Fields(<<"a">>, <<"x">>, <<"y">>, EMPTY, <<"1">>, <<"1">>, EMPTY),
     Fields(<<"b">>, <<"x">>, EMPTY, EMPTY, EMPTY, EMPTY, <<"1">>)}

\* rows whose team-name cell is empty, blank, or noisy
ExtractPool ==
    {Fields(EMPTY, <<"x">>, <<"y">>, EMPTY, EMPTY, EMPTY, EMPTY),
     Fields(<<"SP">>, <<"x">>, <<"y">>, EMPTY, EMPTY, EMPTY, EMPTY),
     Fields(<<"ZWSP">>, <<"y">>, EMPTY, EMPTY, EMPTY, EMPTY, EMPTY),
     Fields(<<"a">>, <<"x">>, <<"y">>, EMPTY, EMPTY, EMPTY, EMPTY),
     Fields(<<"FW_a">>, EMPTY, <<"y">>, <<"1">>, EMPTY, EMPTY, EMPTY),
     Fields(<<"a", "ZWSP">>, <<"x", "ZWSP">>, EMPTY, EMPTY, EMPTY, EMPTY, EMPTY),
     Fields(<<"SP", "a">>, <<"y">>, <<"y", "SP">>, EMPTY, EMPTY, EMPTY, <<"1">>),
     Fields(<<"b">>, EMPTY, EMPTY, EMPTY, <<"1">>, <<"1", "SP">>, EMPTY)}

DiffSheets == {Sheet(FullHeader, rows) : rows \in SeqsUpTo(DiffPool, MaxRows)}

\* the data range of a sheet without content is one empty cell
ExtractSheets ==
    {<< <<EMPTY>> >>}
    \cup UNION {{Sheet(h, rows) : rows \in SeqsUpTo(ExtractPool, MaxRows)} : h \in Layouts}

\* the pairs (current sheet, backup sheet) the operations are applied to
Inputs ==
    (DiffSheets \X DiffSheets)
    \cup {<<s, <<FullHeader>> >> : s \in ExtractSheets}
    \cup {<<s, s>> : s \in ExtractSheets}

----------------------------------------------------------------------------
(* Specification: the calls of compareAndUpdateResults_refactored that      *)
(* build the two maps, the duplicate rows and the change rows, in its       *)
(* order, on a pair of sheets; a throw ends the run.                        *)

Init ==
    /\ \E in \in Inputs : updatedSheet = in[1] /\ latestBackupSheet = in[2]
    /\ pc = "start"
    /\ updatedDataMap = <<>>
    /\ updatedThrew = FALSE
    /\ backupDataMap = <<>>
    /\ backupThrew = FALSE
    /\ duplicateErrors = <<>>
    /\ duplicatesThrew = FALSE
    /\ changes = <<>>
    /\ EmailIdle /\ CrossIdle /\ MatcherIdle
    /\ LaterIdle

\* const updatedDataMap = extractDataAsMap(updatedSheet)
ExtractUpdated ==
    /\ pc = "start"
    /\ LET r == ExtractDataAsMap(updatedSheet)
       IN  /\ updatedDataMap' = r.map
           /\ updatedThrew' = r.threw
           /\ pc' = IF r.threw THEN "failed" ELSE "updated_extracted"
    /\ UNCHANGED <<updatedSheet, latestBackupSheet, backupDataMap, backupThrew,
                   duplicateErrors, duplicatesThrew, changes>>
    /\ UNCHANGED <<emailVars, crossVars, matcherVars, laterVars>>

\* const backupDataMap = extractDataAsMap(latestBackupSheet)
ExtractBackup ==
    /\ pc = "updated_extracted"
    /\ LET r == ExtractDataAsMap(latestBackupSheet)
       IN  /\ backupDataMap' = r.map
           /\ backupThrew' = r.threw
           /\ pc' = IF r.threw THEN "failed" ELSE "backup_extracted"
    /\ UNCHANGED <<updatedSheet, latestBackupSheet, updatedDataMap, updatedThrew,
                   duplicateErrors, duplicatesThrew, changes>>
    /\ UNCHANGED <<emailVars, crossVars, matcherVars, laterVars>>

\* const duplicateErrors = findDuplicates(updatedSheet)
CheckDuplicates ==
    /\ pc = "backup_extracted"
    /\ LET r == FindDuplicates(updatedSheet)
       IN  /\ duplicateErrors' = r.rows
           /\ duplicatesThrew' = r.threw
           /\ pc' = IF r.threw THEN "failed" ELSE "duplicates_checked"
    /\ UNCHANGED <<updatedSheet, latestBackupSheet, updatedDataMap, updatedThrew,
                   backupDataMap, backupThrew, changes>>
    /\ UNCHANGED <<emailVars, crossVars, matcherVars, laterVars>>

\* const changes = findChanges(updatedDataMap, backupDataMap)
CompareMaps ==
    /\ pc = "duplicates_checked"
    /\ changes' = FindChanges(updatedDataMap, backupDataMap)
    /\ pc' = "done"
    /\ UNCHANGED <<updatedSheet, latestBackupSheet, updatedDataMap, updatedThrew,
                   backupDataMap, backupThrew, duplicateErrors, duplicatesThrew>>
    /\ UNCHANGED <<emailVars, crossVars, matcherVars, laterVars>>

Next ==
    \/ ExtractUpdated
    \/ ExtractBackup
    \/ CheckDuplicates
    \/ CompareMaps

Spec == Init /\ [][Next]_vars

----------------------------------------------------------------------------
(* Vocabulary of the properties *)

Compared == pc = "done"

\* extractDataAsMap(updatedSheet) has just returned, on a sheet with a header
\* row (the sheet and the map do not change afterwards)
ExtractedUpdated ==
    pc = "updated_extracted" /\ Len(updatedSheet) > 0

DataRowIndices == 2..Len(updatedSheet)

HeaderSet == {updatedSheet[1][c] : c \in 1..Len(updatedSheet[1])}

\* the cell of data row i under the header `label`
CellOf(i, label) == At(updatedSheet[i], IndexOf(updatedSheet[1], label))

TeamCell(i) == CellOf(i, COLUMN_DEF.TEAM_NAME)

\* blank: empty or only white space
IsBlank(cell) == Trim(cell) = <<>>

NonBlankRows == {i \in DataRowIndices : ~IsBlank(TeamCell(i))}

NonEmptyRows == {i \in DataRowIndices : TeamCell(i) # <<>>}

BothKeys == MapKeys(updatedDataMap) \cap MapKeys(backupDataMap)

CurrentOnlyKeys == MapKeys(updatedDataMap) \ MapKeys(backupDataMap)

BaselineOnlyKeys == MapKeys(backupDataMap) \ MapKeys(updatedDataMap)

\* the positions of the change rows of key k
RowsFor(k) == {r \in 1..Len(changes) : changes[r][1] = k}

SameMail(u, b) == u.to = b.to /\ u.cc = b.cc

SameSettings(u, b) ==
    /\ u.period = b.period
    /\ u.startTime = b.startTime
    /\ u.endTime = b.endTime
    /\ u.holiday = b.holiday

----------------------------------------------------------------------------
(* Properties of findChanges *)

\* C1: findChanges emits at most one change row per key, and every row's key
\* is a key of the current map or of the baseline map.
C1_AtMostOneRowPerKey ==
    Compared =>
        /\ \A r \in 1..Len(changes) :
               changes[r][1] \in MapKeys(updatedDataMap) \cup MapKeys(backupDataMap)
        /\ \A r1, r2 \in 1..Len(changes) :
               changes[r1][1] = changes[r2][1] => r1 = r2

\* C1 witness: a key of both maps was reported by the current-driven loop and
\* another key was reported by the baseline-only loop.
C1_Witness ==
    /\ Compared
    /\ \E k \in BothKeys : RowsFor(k) # {}
    /\ \E k \in BaselineOnlyKeys : RowsFor(k) # {}

\* C2: a key only in the current map gets exactly one row, of kind C, with the
\* current to/cc; a key only in the baseline map gets exactly one row, of kind
\* D, with empty to, cc and remark.
C2_CreatedAndDeleted ==
    Compared =>
        /\ \A k \in CurrentOnlyKeys :
               \E r \in 1..Len(changes) :
                   /\ RowsFor(k) = {r}
                   /\ changes[r][4] = "C"
                   /\ changes[r][2] = MapGet(updatedDataMap, k).to
                   /\ changes[r][3] = MapGet(updatedDataMap, k).cc
        /\ \A k \in BaselineOnlyKeys :
               \E r \in 1..Len(changes) :
                   /\ RowsFor(k) = {r}
                   /\ changes[r] = <<k, <<>>, <<>>, "D", <<>> >>

\* C2 witness: one key exists only in the current map, with a non-empty to,
\* and another only in the baseline map.
C2_Witness ==
    /\ Compared
    /\ \E k \in CurrentOnlyKeys : MapGet(updatedDataMap, k).to # <<>>
    /\ BaselineOnlyKeys # {}

\* C3: a key of both maps whose to, cc and optional fields are all equal gets
\* no row, also when the current record was auto-cleaned.
C3_UnchangedKeyNoRow ==
    Compared =>
        \A k \in BothKeys :
            LET u == MapGet(updatedDataMap, k)
                b == MapGet(backupDataMap, k)
            IN  SameMail(u, b) /\ SameSettings(u, b) => RowsFor(k) = {}

\* C3 witness: an unchanged key whose current record has a non-empty
\* cleanedCols list.
C3_Witness ==
    /\ Compared
    /\ \E k \in BothKeys :
           LET u == MapGet(updatedDataMap, k)
               b == MapGet(backupDataMap, k)
           IN  SameMail(u, b) /\ SameSettings(u, b) /\ u.cleanedCols # <<>>

C5_RoundTrip ==
    Compared /\ updatedSheet = latestBackupSheet => changes = <<>>

\* C5 witness: the same sheet on both sides, with two records, one of them
\* auto-cleaned.
C5_Witness ==
    /\ Compared
    /\ updatedSheet = latestBackupSheet
    /\ Len(updatedDataMap) >= 2
    /\ \E p \in 1..Len(updatedDataMap) : updatedDataMap[p].entry.cleanedCols # <<>>

----------------------------------------------------------------------------
(* Properties of extractDataAsMap *)

\* the current sheet without the data rows whose team-name cell is blank
WithoutBlankTeamRows ==
    <<updatedSheet[1]>>
    \o LET Kept(row) ==
               ~IsBlank(At(row, IndexOf(updatedSheet[1], COLUMN_DEF.TEAM_NAME)))
       IN  SelectSeq(Tail(updatedSheet), Kept)

\* the data rows the extractor stores under key k
RowsOfKey(k) == {i \in NonEmptyRows : Normalize(TeamCell(i)) = k}

LastRowOfKey(k) == CHOOSE i \in RowsOfKey(k) : \A j \in RowsOfKey(k) : j <= i

\* C6: a data row whose team-name cell is blank (empty or only white space)
\* contributes nothing to the map: the map is the one extracted from the
\* sheet without those rows.
C6_BlankTeamNameNeverExtracted ==
    ExtractedUpdated =>
        updatedDataMap = ExtractDataAsMap(WithoutBlankTeamRows).map

C8_MandatoryHeaders ==
    (pc \in {"updated_extracted", "failed"} /\ Len(updatedSheet) > 0) =>
        IF {COLUMN_DEF.TEAM_NAME, COLUMN_DEF.TO, COLUMN_DEF.CC} \subseteq HeaderSet
        THEN /\ ~updatedThrew
             /\ \A p \in 1..Len(updatedDataMap) :
                    LET e == updatedDataMap[p].entry
                    IN  /\ COLUMN_DEF.PERIOD \notin HeaderSet => e.period = <<>>
                        /\ COLUMN_DEF.START_TIME \notin HeaderSet => e.startTime = <<>>
                        /\ COLUMN_DEF.END_TIME \notin HeaderSet => e.endTime = <<>>
                        /\ COLUMN_DEF.HOLIDAY \notin HeaderSet => e.holiday = <<>>
        ELSE /\ updatedThrew
             /\ pc = "failed"
             /\ updatedDataMap = <<>>

\* C8 witness: a sheet with data rows whose header row has the team-name and
\* TO headers but no CC header, on which the extraction threw.
C8_Witness ==
    /\ pc = "failed"
    /\ updatedThrew
    /\ Len(updatedSheet) > 1
    /\ COLUMN_DEF.TEAM_NAME \in HeaderSet
    /\ COLUMN_DEF.TO \in HeaderSet
    /\ COLUMN_DEF.CC \notin HeaderSet

\* C9: when several extracted data rows normalize to one key, the map holds
\* exactly one entry for the key, and it is the record of the last of them.
C9_LastRowWins ==
    ExtractedUpdated /\ ~updatedThrew =>
        \A i, j \in NonEmptyRows :
            (i < j /\ Normalize(TeamCell(i)) = Normalize(TeamCell(j))) =>
                LET k == Normalize(TeamCell(i))
                IN  /\ Cardinality({p \in 1..Len(updatedDataMap) :
                                        updatedDataMap[p].key = k}) = 1
                    /\ MapGet(updatedDataMap, k)
                           = RowEntry(updatedSheet[LastRowOfKey(k)],
                                      Indices(updatedSheet[1]))

\* C9 witness: two rows with one key whose records differ; the stored record
\* is the later row's and not the earlier row's.
C9_Witness ==
    /\ ExtractedUpdated /\ ~updatedThrew
    /\ \E i, j \in NonEmptyRows :
           /\ i < j
           /\ Normalize(TeamCell(i)) = Normalize(TeamCell(j))
           /\ RowEntry(updatedSheet[i], Indices(updatedSheet[1]))
                  # RowEntry(updatedSheet[j], Indices(updatedSheet[1]))
           /\ j = LastRowOfKey(Normalize(TeamCell(j)))
           /\ MapGet(updatedDataMap, Normalize(TeamCell(j)))
                  = RowEntry(updatedSheet[j], Indices(updatedSheet[1]))

----------------------------------------------------------------------------
(* Extractor and within-set duplicate detector together *)

\* C10: whenever two data rows are stored by extractDataAsMap under the same
\* normalized key, findDuplicates on the same sheet emits a duplicate row for
\* that team.
C10_CollisionsAreReported ==
    pc = "duplicates_checked" =>
        \A i, j \in NonEmptyRows :
            (i < j /\ Normalize(TeamCell(i)) = Normalize(TeamCell(j))) =>
                \E r \in 1..Len(duplicateErrors) :
                    /\ duplicateErrors[r][4] = "DUPLICATE"
                    /\ Normalize(duplicateErrors[r][1]) = Normalize(TeamCell(i))

----------------------------------------------------------------------------
(* Specification: findDuplicates called on one sheet                        *)

MaxDupRows == 4

\* header rows with and without the team-name, TO and CC columns
DupLayouts ==
    {<<COLUMN_DEF.TEAM_NAME, COLUMN_DEF.TO, COLUMN_DEF.CC>>,
     <<COLUMN_DEF.TO, COLUMN_DEF.TEAM_NAME>>,
     <<COLUMN_DEF.TO, COLUMN_DEF.CC>>}

\* rows of the names a and b (one with a leading space), of an empty and of
\* a white-space-only team-name cell, with differing to/cc
DupPool ==
    {Fields(<<"a">>, <<"x">>, <<"y">>, EMPTY, EMPTY, EMPTY, EMPTY),
     Fields(<<"a">>, <<"y">>, EMPTY, EMPTY, EMPTY, EMPTY, EMPTY),
     Fields(<<"SP", "a">>, <<"x", "SP">>, <<"x">>, EMPTY, EMPTY, EMPTY, EMPTY),
     Fields(<<"b">>, <<"x">>, EMPTY, EMPTY, EMPTY, EMPTY, EMPTY),
     Fields(<<"b">>, <<"y">>, <<"y">>, EMPTY, EMPTY, EMPTY, EMPTY),
     Fields(EMPTY, <<"x">>, <<"y">>, EMPTY, EMPTY, EMPTY, EMPTY),
     Fields(<<"SP">>, <<"y">>, EMPTY, EMPTY, EMPTY, EMPTY, EMPTY)}

\* MOCK_SHEET_DATA.duplicates: Team A is a, Team B is b, Team C is x
TEST_TEAM_COLUMN == << <<"a">>, <<"b">>, <<"a">>, <<"x">>, <<"b">>, <<"a">> >>

MockDuplicates ==
    << <<COLUMN_DEF.TEAM_NAME, COLUMN_DEF.TO, COLUMN_DEF.CC>>,
       << <<"a">>, <<"a">>, EMPTY>>,
       << <<"b">>, <<"b">>, EMPTY>>,
       << <<"a">>, <<"a", "1">>, EMPTY>>,
       << <<"x">>, <<"x">>, EMPTY>>,
       << <<"b">>, <<"b", "1">>, EMPTY>>,
       << <<"a">>, <<"a", "1", "1">>, EMPTY>> >>

\* the team column of the test under other to/cc values
TestColumnSheets ==
    {<< <<COLUMN_DEF.TEAM_NAME, COLUMN_DEF.TO, COLUMN_DEF.CC>> >>
        \o [i \in 1..Len(TEST_TEAM_COLUMN) |-> <<TEST_TEAM_COLUMN[i], to[i], to[Len(TEST_TEAM_COLUMN) + 1 - i]>>]
     : to \in [1..Len(TEST_TEAM_COLUMN) -> {<<"x">>, <<"y">>}]}

\* the sheets findDuplicates is applied to: the empty sheet, the sheets of
\* the test, and every layout with up to MaxDupRows rows of the pool
IsDuplicateSheet(sheet) ==
    \/ sheet \in {<< <<EMPTY>> >>, MockDuplicates} \cup TestColumnSheets
    \/ \E h \in DupLayouts, k \in 0..MaxDupRows :
           \E rows \in [1..k -> DupPool] : sheet = Sheet(h, rows)

DuplicateInit ==
    /\ IsDuplicateSheet(updatedSheet)
    /\ latestBackupSheet = <<FullHeader>>
    /\ pc = "start"
    /\ updatedDataMap = <<>>
    /\ updatedThrew = FALSE
    /\ backupDataMap = <<>>
    /\ backupThrew = FALSE
    /\ duplicateErrors = <<>>
    /\ duplicatesThrew = FALSE
    /\ changes = <<>>
    /\ EmailIdle /\ CrossIdle /\ MatcherIdle
    /\ LaterIdle

\* findDuplicates(updatedSheet)
FindDuplicatesCall ==
    /\ pc = "start"
    /\ LET r == FindDuplicates(updatedSheet)
       IN  /\ duplicateErrors' = r.rows
           /\ duplicatesThrew' = r.threw
           /\ pc' = IF r.threw THEN "duplicates_failed" ELSE "duplicates_returned"
    /\ UNCHANGED <<updatedSheet, latestBackupSheet, updatedDataMap, updatedThrew,
                   backupDataMap, backupThrew, changes>>
    /\ UNCHANGED <<emailVars, crossVars, matcherVars, laterVars>>

DuplicateNext == FindDuplicatesCall

SpecDuplicates == DuplicateInit /\ [][DuplicateNext]_vars

----------------------------------------------------------------------------
(* Properties of findDuplicates *)

DuplicatesReturned == pc = "duplicates_returned"

\* the cell of data row i under `label`, empty when the sheet has no such column
FieldOf(i, label) == IF label \in HeaderSet THEN CellOf(i, label) ELSE <<>>

\* the data rows whose non-empty team-name cell trims to name
Occurrences(name) == {i \in NonEmptyRows : Trim(TeamCell(i)) = name}

FirstOccurrence(name) ==
    CHOOSE i \in Occurrences(name) : \A j \in Occurrences(name) : i <= j

DuplicatedNames ==
    {name \in {Trim(TeamCell(i)) : i \in NonEmptyRows} :
        Cardinality(Occurrences(name)) > 1}

\* C11: findDuplicates returns one row per trimmed team name that occurs more
\* than once among the data rows and none for the other names; the row holds
\* the name, the to and cc of the first row with the name and the number of
\* its occurrences, and the rows are in the order of the first occurrences.
C11_OneRowPerDuplicatedName ==
    DuplicatesReturned /\ Len(updatedSheet) > 1 =>
        /\ Len(duplicateErrors) = Cardinality(DuplicatedNames)
        /\ \A r \in 1..Len(duplicateErrors) :
               LET name == duplicateErrors[r][1]
               IN  /\ name \in DuplicatedNames
                   /\ duplicateErrors[r] =
                          <<name,
                            FieldOf(FirstOccurrence(name), COLUMN_DEF.TO),
                            FieldOf(FirstOccurrence(name), COLUMN_DEF.CC),
                            "DUPLICATE",
                            <<ToString(Cardinality(Occurrences(name))), "TIMES">> >>
        /\ \A r1, r2 \in 1..Len(duplicateErrors) :
               r1 < r2 => FirstOccurrence(duplicateErrors[r1][1])
                              < FirstOccurrence(duplicateErrors[r2][1])

\* C11 witness: two names are reported, the first of them with a to that a
\* later row of the name does not have, and a name occurring once is not
\* reported.
C11_Witness ==
    /\ DuplicatesReturned /\ Len(updatedSheet) > 1
    /\ Len(duplicateErrors) = 2
    /\ duplicateErrors[1][2] # <<>>
    /\ \E j \in Occurrences(duplicateErrors[1][1]) :
           FieldOf(j, COLUMN_DEF.TO) # duplicateErrors[1][2]
    /\ \E i \in NonEmptyRows : Cardinality(Occurrences(Trim(TeamCell(i)))) = 1

\* the team-name cells of the data rows, top to bottom
TeamColumn == [i \in 1..(Len(updatedSheet) - 1) |-> TeamCell(i + 1)]

\* the duplicate row of the name first seen in data row i, with a count
DuplicateRowOf(i, count) ==
    <<Trim(TeamCell(i)), FieldOf(i, COLUMN_DEF.TO), FieldOf(i, COLUMN_DEF.CC),
      "DUPLICATE", <<count, "TIMES">> >>

OnTestColumn ==
    /\ DuplicatesReturned
    /\ COLUMN_DEF.TEAM_NAME \in HeaderSet
    /\ TeamColumn = TEST_TEAM_COLUMN

\* C12 as stated: on the team column [A, B, A, C, B, A] findDuplicates
\* returns two rows, A with count 4 and B with count 2, each with the to/cc
\* of the first row of the name.
C12_CountsFourAndTwo ==
    OnTestColumn =>
        duplicateErrors = <<DuplicateRowOf(2, "4"), DuplicateRowOf(3, "2")>>

\* C12 amended: on the team column [A, B, A, C, B, A] findDuplicates returns
\* two rows, A with count 3 and B with count 2, each with the to/cc of the
\* first row of the name.
C12_CountsThreeAndTwo ==
    OnTestColumn =>
        duplicateErrors = <<DuplicateRowOf(2, "3"), DuplicateRowOf(3, "2")>>

\* C12 witness: the team column of the test, where the later rows of A and
\* of B carry another to than their first rows.
C12_Witness ==
    /\ OnTestColumn
    /\ Len(duplicateErrors) = 2
    /\ FieldOf(4, COLUMN_DEF.TO) # FieldOf(2, COLUMN_DEF.TO)
    /\ FieldOf(6, COLUMN_DEF.TO) # FieldOf(3, COLUMN_DEF.TO)

\* C13: on a dataset whose header row lacks the team-name header,
\* findDuplicates throws, whatever the number of data rows.
C13_MissingHeaderAlwaysThrows ==
    pc \in {"duplicates_returned", "duplicates_failed"}
        /\ COLUMN_DEF.TEAM_NAME \notin HeaderSet
    => duplicatesThrew

----------------------------------------------------------------------------
(* EMAIL_REGEX and areEmailsValid                                           *)
(* Further character tokens: "A" (an upper-case letter), "AT" (@),          *)
(* "DOT" (.), "HYPHEN" (-), "QUOTE" ("), "LBRACKET" ([), "RBRACKET" (]),    *)
(* "COMMA" (,).                                                             *)

\* [a-zA-Z]
IsLetter(c) == c \in {"a", "b", "x", "y", "e", "A"}

\* [0-9]
IsDigit(c) == c = "1"

\* [a-zA-Z\-0-9]
IsLabelChar(c) == IsLetter(c) \/ IsDigit(c) \/ c = "HYPHEN"

\* [^<>()[\]\\.,;:\s@"]
IsAtomChar(c) ==
    /\ c \notin {"LBRACKET", "RBRACKET", "DOT", "COMMA", "AT", "QUOTE"}
    /\ ~IsWhiteSpace(c)

\* . (any character but a line terminator)
IsNotLineTerminator(c) == c # "NL"

\* String.prototype.split(sep) for a one-character separator
RECURSIVE SplitOn(_, _)
SplitOn(s, sep) ==
    IF \A i \in 1..Len(s) : s[i] # sep THEN <<s>>
    ELSE LET p == CHOOSE i \in 1..Len(s) :
                      s[i] = sep /\ \A j \in 1..(i - 1) : s[j] # sep
         IN  <<SubSeq(s, 1, p - 1)>> \o SplitOn(SubSeq(s, p + 1, Len(s)), sep)

\* String.prototype.toLowerCase
ToLowerCase(s) == [i \in 1..Len(s) |-> IF s[i] = "A" THEN "a" ELSE s[i]]

\* [^<>()[\]\\.,;:\s@"]+(\.[^<>()[\]\\.,;:\s@"]+)*
IsDotAtom(s) ==
    LET atoms == SplitOn(s, "DOT")
    IN  \A i \in 1..Len(atoms) :
            /\ atoms[i] # <<>>
            /\ \A j \in 1..Len(atoms[i]) : IsAtomChar(atoms[i][j])

\* ".+"
IsQuoted(s) ==
    /\ Len(s) >= 3
    /\ s[1] = "QUOTE"
    /\ s[Len(s)] = "QUOTE"
    /\ \A i \in 1..Len(s) : IsNotLineTerminator(s[i])

\* \[[0-9]{1,3}\.[0-9]{1,3}\.[0-9]{1,3}\.[0-9]{1,3}\]
IsAddressLiteral(s) ==
    /\ Len(s) >= 2
    /\ s[1] = "LBRACKET"
    /\ s[Len(s)] = "RBRACKET"
    /\ LET parts == SplitOn(SubSeq(s, 2, Len(s) - 1), "DOT")
       IN  /\ Len(parts) = 4
           /\ \A i \in 1..Len(parts) :
                  /\ Len(parts[i]) \in 1..3
                  /\ \A j \in 1..Len(parts[i]) : IsDigit(parts[i][j])

\* ([a-zA-Z\-0-9]+\.)+[a-zA-Z]{2,}
IsHostName(s) ==
    LET labels == SplitOn(s, "DOT")
        n      == Len(labels)
    IN  /\ n >= 2
        /\ \A i \in 1..(n - 1) :
               /\ labels[i] # <<>>
               /\ \A j \in 1..Len(labels[i]) : IsLabelChar(labels[i][j])
        /\ Len(labels[n]) >= 2
        /\ \A j \in 1..Len(labels[n]) : IsLetter(labels[n][j])

\* EMAIL_REGEX.test(s): a local part, an @, a domain
EmailRegexTest(s) ==
    \E p \in 1..Len(s) :
        /\ s[p] = "AT"
        /\ LET local  == SubSeq(s, 1, p - 1)
               domain == SubSeq(s, p + 1, Len(s))
           IN  /\ IsDotAtom(local) \/ IsQuoted(local)
               /\ IsAddressLiteral(domain) \/ IsHostName(domain)

\* emailString.split('\n').filter(e => e.trim() !== '')
EmailCandidates(emailString) ==
    SelectSeq(SplitOn(emailString, "NL"), LAMBDA e : Trim(e) # <<>>)

\* a mutation of EveryEmailMatches: one matching address is enough
SomeEmailMatches(emails) ==
    \E i \in 1..Len(emails) : EmailRegexTest(ToLowerCase(Trim(emails[i])))

\* emails.every(email => EMAIL_REGEX.test(String(email).trim().toLowerCase()))
EveryEmailMatches(emails) ==
    \A i \in 1..Len(emails) : EmailRegexTest(ToLowerCase(Trim(emails[i])))

AreEmailsValid(emailString) ==
    IF ~Truthy(emailString) \/ Trim(emailString) = <<>> THEN TRUE
    ELSE EveryEmailMatches(EmailCandidates(emailString))

----------------------------------------------------------------------------
(* findInvalidEmails *)

\* a mutation of EmailIssues: only the TO field is validated
EmailIssuesOfToOnly(entry) ==
    IF ~AreEmailsValid(entry.to) THEN <<"TO">> ELSE <<>>

\* the issues list of one entry: TO, then CC
EmailIssues(entry) ==
    (IF ~AreEmailsValid(entry.to) THEN <<"TO">> ELSE <<>>)
    \o (IF ~AreEmailsValid(entry.cc) THEN <<"CC">> ELSE <<>>)

\* the remark "invalid: " followed by the issues joined by a separator
InvalidEmailRemark(issues) == <<"INVALID">> \o Join(issues, "AND")

\* the loop over updatedDataMap.entries(); i is the 1-based position
RECURSIVE InvalidEmailRows(_, _)
InvalidEmailRows(dataMap, i) ==
    IF i > Len(dataMap) THEN <<>>
    ELSE LET teamName == dataMap[i].key
             entry    == dataMap[i].entry
             issues   == EmailIssues(entry)
         IN  (IF issues # <<>>
              THEN << <<teamName, entry.to, entry.cc, "M", InvalidEmailRemark(issues)>> >>
              ELSE <<>>)
             \o InvalidEmailRows(dataMap, i + 1)

FindInvalidEmails(dataMap) == InvalidEmailRows(dataMap, 1)

----------------------------------------------------------------------------
(* Specification: areEmailsValid on a string of address lines, and          *)
(* findInvalidEmails on a map                                               *)

MaxEmailLines == 3

MaxEmailEntries == 2

\* the concatenation of a sequence of strings
RECURSIVE Concat(_)
Concat(strs) == IF strs = <<>> THEN <<>> ELSE Head(strs) \o Concat(Tail(strs))

\* the string whose lines are `lines`
LinesToString(lines) == Concat(Join(lines, <<"NL">>))

VALID_ADDRESS == <<"a", "AT", "b", "DOT", "x", "y">>

\* lines of an address cell: blank, well-formed and malformed addresses
EmailLinePool ==
    {<<>>,
     <<"SP">>,
     VALID_ADDRESS,
     <<"SP", "A", "AT", "b", "DOT", "x", "y", "SP">>,
     <<"QUOTE", "a", "SP", "AT", "QUOTE", "AT", "b", "HYPHEN", "1", "DOT", "x", "y">>,
     <<"a", "DOT", "E_ACUTE", "AT", "LBRACKET", "1", "DOT", "1", "1", "DOT", "1", "DOT",
       "1", "1", "1", "RBRACKET">>,
     <<"a">>,
     <<"a", "AT">>,
     <<"a", "AT", "b", "DOT", "x">>,
     <<"a", "AT", "b", "DOT", "x", "1">>,
     <<"a", "SP", "b", "AT", "b", "DOT", "x", "y">>,
     <<"a", "DOT", "DOT", "b", "AT", "b", "DOT", "x", "y">>,
     <<"a", "AT", "FW_a", "DOT", "x", "y">>,
     <<"a", "AT", "LBRACKET", "1", "1", "1", "1", "DOT", "1", "DOT", "1", "DOT", "1",
       "RBRACKET">>}

\* to and cc values of a map entry
EmailFieldPool ==
    {<<>>,
     VALID_ADDRESS,
     <<"a", "AT">>,
     LinesToString(<<VALID_ADDRESS, <<"a", "AT">>, VALID_ADDRESS>>),
     LinesToString(<<VALID_ADDRESS, <<"b", "AT", "b", "DOT", "x", "y">> >>)}

\* the i-th key of the map
EmailTeam(i) == [j \in 1..i |-> "a"]

\* a map entry with the given to and cc
MailEntry(to, cc) ==
    [to |-> to, cc |-> cc, period |-> <<>>, startTime |-> <<>>, endTime |-> <<>>,
     holiday |-> <<>>, cleanedCols |-> <<>>]

EmailInit ==
    /\ pc = "start"
    /\ updatedSheet = << <<EMPTY>> >>
    /\ latestBackupSheet = << <<EMPTY>> >>
    /\ updatedThrew = FALSE
    /\ backupDataMap = <<>>
    /\ backupThrew = FALSE
    /\ duplicateErrors = <<>>
    /\ duplicatesThrew = FALSE
    /\ changes = <<>>
    /\ emailsValid = TRUE
    /\ emailFormatErrors = <<>>
    /\ CrossIdle /\ MatcherIdle
    /\ LaterIdle
    /\ \/ /\ updatedDataMap = <<>>
          /\ \E k \in 0..MaxEmailLines : emailLines \in [1..k -> EmailLinePool]
       \/ /\ emailLines = <<>>
          /\ \E k \in 1..MaxEmailEntries :
                 \E f \in [1..k -> EmailFieldPool \X EmailFieldPool] :
                     updatedDataMap =
                         [i \in 1..k |-> [key   |-> EmailTeam(i),
                                          entry |-> MailEntry(f[i][1], f[i][2])]]

\* areEmailsValid(emailString)
AreEmailsValidCall ==
    /\ pc = "start"
    /\ emailsValid' = AreEmailsValid(LinesToString(emailLines))
    /\ pc' = "emails_validated"
    /\ UNCHANGED <<compareVars, emailLines, emailFormatErrors, crossVars, matcherVars, laterVars>>

\* findInvalidEmails(updatedDataMap)
FindInvalidEmailsCall ==
    /\ pc = "emails_validated"
    /\ emailFormatErrors' = FindInvalidEmails(updatedDataMap)
    /\ pc' = "emails_reported"
    /\ UNCHANGED <<compareVars, emailLines, emailsValid, crossVars, matcherVars, laterVars>>

EmailNext ==
    \/ AreEmailsValidCall
    \/ FindInvalidEmailsCall

SpecEmails == EmailInit /\ [][EmailNext]_vars

----------------------------------------------------------------------------
(* Properties of areEmailsValid and findInvalidEmails *)

EmailsValidated == pc = "emails_validated"

\* the trimmed line is blank or matches the address grammar
LineAccepted(line) == Trim(line) = <<>> \/ EmailRegexTest(Trim(line))

\* the lines with lines i and j exchanged
SwapLines(lines, i, j) ==
    [k \in 1..Len(lines) |->
        IF k = i THEN lines[j] ELSE IF k = j THEN lines[i] ELSE lines[k]]

\* C14: areEmailsValid is true for an empty or white-space-only string, and
\* otherwise true exactly when every non-blank line, trimmed, matches the
\* address grammar; exchanging two lines does not change the result.
C14_AllCandidatesMatch ==
    EmailsValidated =>
        /\ emailsValid = \A i \in 1..Len(emailLines) : LineAccepted(emailLines[i])
        /\ \A i, j \in 1..Len(emailLines) :
               AreEmailsValid(LinesToString(SwapLines(emailLines, i, j))) = emailsValid

\* C14 witness: three non-blank lines of which only the last fails, one of
\* the others with upper case and surrounding spaces; the string is invalid.
C14_Witness ==
    /\ EmailsValidated
    /\ Len(emailLines) = 3
    /\ ~emailsValid
    /\ \A i \in 1..3 : Trim(emailLines[i]) # <<>>
    /\ LineAccepted(emailLines[1]) /\ LineAccepted(emailLines[2])
    /\ ~LineAccepted(emailLines[3])
    /\ emailLines[1] # ToLowerCase(Trim(emailLines[1]))

EmailsReported == pc = "emails_reported"

\* the positions of the map entries with a to or cc that is not valid
InvalidPositions ==
    {p \in 1..Len(updatedDataMap) :
        \/ ~AreEmailsValid(updatedDataMap[p].entry.to)
        \/ ~AreEmailsValid(updatedDataMap[p].entry.cc)}

\* the r-th of them in map order
NthInvalid(r) ==
    CHOOSE p \in InvalidPositions :
        Cardinality({q \in InvalidPositions : q <= p}) = r

\* C15: findInvalidEmails returns one row of kind M per map entry whose to or
\* cc is not valid and none for the others, in map order; the remark names
\* TO, CC, or TO then CC.
C15_OneRowPerInvalidRecord ==
    EmailsReported =>
        /\ Len(emailFormatErrors) = Cardinality(InvalidPositions)
        /\ \A r \in 1..Len(emailFormatErrors) :
               LET e       == updatedDataMap[NthInvalid(r)]
                   toBad   == ~AreEmailsValid(e.entry.to)
                   ccBad   == ~AreEmailsValid(e.entry.cc)
               IN  emailFormatErrors[r] =
                       <<e.key, e.entry.to, e.entry.cc, "M",
                         IF toBad /\ ccBad THEN <<"INVALID", "TO", "AND", "CC">>
                         ELSE IF toBad THEN <<"INVALID", "TO">>
                         ELSE <<"INVALID", "CC">> >>

\* C15 witness: a map whose first entry fails in cc only and whose second
\* fails in a multi-line to and in cc; both are reported.
C15_Witness ==
    /\ EmailsReported
    /\ Len(updatedDataMap) = 2
    /\ Len(emailFormatErrors) = 2
    /\ emailFormatErrors[1][5] = <<"INVALID", "CC">>
    /\ emailFormatErrors[2][5] = <<"INVALID", "TO", "AND", "CC">>
    /\ Len(EmailCandidates(emailFormatErrors[2][2])) > 1

----------------------------------------------------------------------------
(* identifyNewTeamDuplicates *)

\* a mutation of NormalizeTeamName: the cell is only trimmed
NormalizeTeamNameByTrim(str) == Trim(str)

\* the function's own normalize: NFKC, zero-width characters removed, trim
NormalizeTeamName(str) == Trim(StripZeroWidth(NFKC(str)))

\* the body of the forEach for one row; index is the 0-based array index
NewTeamDuplicate(row, index, masterDataMap, teamNameIndex) ==
    IF Len(row) <= teamNameIndex THEN <<>>
    ELSE LET rawTeamName == At(row, teamNameIndex)
             teamName    == NormalizeTeamName(rawTeamName)
         IN  IF ~Truthy(rawTeamName) \/ Trim(rawTeamName) = <<>> THEN <<>>
             ELSE IF teamName = COLUMN_DEF.TEAM_NAME THEN <<>>
             ELSE IF MapHas(masterDataMap, teamName)
                  THEN <<[teamName |-> teamName, sourceRowIndex |-> index + 1]>>
                  ELSE <<>>

\* sourceData.forEach from the row of 0-based index `index` on
RECURSIVE NewTeamDuplicatesFrom(_, _, _, _)
NewTeamDuplicatesFrom(sourceData, masterDataMap, teamNameIndex, index) ==
    IF index >= Len(sourceData) THEN <<>>
    ELSE NewTeamDuplicate(sourceData[index + 1], index, masterDataMap, teamNameIndex)
         \o NewTeamDuplicatesFrom(sourceData, masterDataMap, teamNameIndex, index + 1)

\* a mutation of IdentifyNewTeamDuplicates: a negative index falls back to
\* the first column
IdentifyWithFirstColumnFallback(sourceData, masterDataMap, teamNameIndex) ==
    NewTeamDuplicatesFrom(sourceData, masterDataMap,
                          IF teamNameIndex < 0 THEN 0 ELSE teamNameIndex, 0)

IdentifyNewTeamDuplicates(sourceData, masterDataMap, teamNameIndex) ==
    IF teamNameIndex < 0 THEN <<>>
    ELSE NewTeamDuplicatesFrom(sourceData, masterDataMap, teamNameIndex, 0)

----------------------------------------------------------------------------
(* Specification: identifyNewTeamDuplicates on candidate rows, a master     *)
(* map and a column index                                                   *)

MaxSourceRows == 2

\* team-name cells: empty, blank, zero-width only, plain, noisy, the header
\* label
CandidateCells ==
    {EMPTY, <<"SP">>, <<"ZWSP">>, <<"a">>, <<"FW_a">>, <<"SP", "a", "ZWSP">>,
     <<"b">>, COLUMN_DEF.TEAM_NAME}

\* rows of one column, and rows whose second column is a team name
CandidateRows ==
    {<<c>> : c \in CandidateCells}
    \cup {<< <<"y">>, c>> : c \in {EMPTY, <<"a">>, <<"FW_a">>}}

\* the master map with the given keys, in this order
MasterMapOf(keys) ==
    [i \in 1..Len(keys) |-> [key |-> keys[i], entry |-> MailEntry(<<>>, <<>>)]]

MasterMaps ==
    {MasterMapOf(<<>>),
     MasterMapOf(<< <<"a">> >>),
     MasterMapOf(<< <<"b">>, <<"a">> >>),
     MasterMapOf(<< <<>>, <<"a">>, COLUMN_DEF.TEAM_NAME >>)}

TeamNameIndexes == {-2, -1, 0, 1}

CrossInit ==
    /\ pc = "start"
    /\ updatedSheet = << <<EMPTY>> >>
    /\ latestBackupSheet = << <<EMPTY>> >>
    /\ updatedDataMap = <<>>
    /\ updatedThrew = FALSE
    /\ backupDataMap = <<>>
    /\ backupThrew = FALSE
    /\ duplicateErrors = <<>>
    /\ duplicatesThrew = FALSE
    /\ changes = <<>>
    /\ EmailIdle /\ MatcherIdle
    /\ LaterIdle
    /\ \E k \in 0..MaxSourceRows : candidateData \in [1..k -> CandidateRows]
    /\ masterMap \in MasterMaps
    /\ teamNameIdx \in TeamNameIndexes
    /\ newTeamDuplicates = <<>>

\* identifyNewTeamDuplicates(sourceData, masterDataMap, teamNameIndex)
IdentifyNewTeamDuplicatesCall ==
    /\ pc = "start"
    /\ newTeamDuplicates' = IdentifyNewTeamDuplicates(candidateData, masterMap, teamNameIdx)
    /\ pc' = "identified"
    /\ UNCHANGED <<compareVars, emailVars, candidateData, masterMap, teamNameIdx,
                   matcherVars, laterVars>>

CrossNext == IdentifyNewTeamDuplicatesCall

SpecCross == CrossInit /\ [][CrossNext]_vars

----------------------------------------------------------------------------
(* Properties of identifyNewTeamDuplicates *)

Identified == pc = "identified"

\* the 1-based positions of the candidate rows that have a cell in the
\* team-name column
RowsWithTeamCell == {i \in 1..Len(candidateData) : Len(candidateData[i]) > teamNameIdx}

CandidateCell(i) == candidateData[i][teamNameIdx + 1]

\* the rows whose team-name cell is non-blank, is not the header label and
\* normalizes to a key of the master map
HitRows ==
    {i \in RowsWithTeamCell :
        /\ ~IsBlank(CandidateCell(i))
        /\ Normalize(CandidateCell(i)) # COLUMN_DEF.TEAM_NAME
        /\ Normalize(CandidateCell(i)) \in MapKeys(masterMap)}

\* the r-th of them from the top
NthHit(r) == CHOOSE i \in HitRows : Cardinality({j \in HitRows : j <= i}) = r

\* C16: with a non-negative column index, identifyNewTeamDuplicates returns
\* one entry (normalized name, 1-based row position) per candidate row whose
\* team-name cell is non-blank, is not the header label and normalizes to a
\* master key, nothing for the other rows, in ascending row order, repeated
\* hits of one team unmerged.
C16_OneEntryPerHitRow ==
    Identified /\ teamNameIdx >= 0 =>
        /\ Len(newTeamDuplicates) = Cardinality(HitRows)
        /\ \A r \in 1..Len(newTeamDuplicates) :
               newTeamDuplicates[r] =
                   [teamName       |-> Normalize(CandidateCell(NthHit(r))),
                    sourceRowIndex |-> NthHit(r)]

\* C16 witness: two rows hit the same master key, one of them through a
\* cell that differs from its normalized name, and both are returned.
C16_Witness ==
    /\ Identified /\ teamNameIdx >= 0
    /\ Len(newTeamDuplicates) = 2
    /\ newTeamDuplicates[1].teamName = newTeamDuplicates[2].teamName
    /\ newTeamDuplicates[1].sourceRowIndex < newTeamDuplicates[2].sourceRowIndex
    /\ \E i \in HitRows : CandidateCell(i) # Normalize(CandidateCell(i))

\* C17: with a negative column index, identifyNewTeamDuplicates returns the
\* empty list.
C17_NegativeIndexGivesNothing ==
    Identified /\ teamNameIdx < 0 => newTeamDuplicates = <<>>

\* C17 witness: a negative index on rows and a master map that give hits
\* when the first column is read.
C17_Witness ==
    /\ Identified /\ teamNameIdx < 0
    /\ newTeamDuplicates = <<>>
    /\ NewTeamDuplicatesFrom(candidateData, masterMap, 0, 0) # <<>>

----------------------------------------------------------------------------
(* checkTeamNameDuplicates and addResult                                    *)
(* Further character tokens: "SLASH" (/), the digits "0".."9", and          *)
(* "ROW_SUFFIX" for the two characters of the row label suffix.             *)

\* String.prototype.includes: sub occurs in s as a substring
Includes(s, sub) ==
    \E i \in 0..(Len(s) - Len(sub)) : SubSeq(s, i + 1, i + Len(sub)) = sub

\* norm = str => String(str).trim()
Norm(str) == Trim(str)

\* the decimal digits of a natural number
RECURSIVE Digits(_)
Digits(n) ==
    IF n < 10 THEN <<ToString(n)>> ELSE Digits(n \div 10) \o <<ToString(n % 10)>>

\* the separator ' / '
SEPARATOR == <<"SP", "SLASH", "SP">>

\* strs.join(' / ') as one string
JoinStrings(strs) == Concat(Join(strs, SEPARATOR))

\* masters whose trimmed name equals newTeam
ExactMatches(newTeam, masterTeams) ==
    SelectSeq(masterTeams, LAMBDA master : newTeam = Norm(master.name))

\* masters whose trimmed name differs from newTeam and contains it or is
\* contained in it
PartialMatches(newTeam, masterTeams) ==
    SelectSeq(masterTeams,
              LAMBDA master :
                  /\ newTeam # Norm(master.name)
                  /\ \/ Includes(newTeam, Norm(master.name))
                     \/ Includes(Norm(master.name), newTeam))

\* matches.map(m => m.name).join(' / ')
TargetNames(matches) == JoinStrings([i \in 1..Len(matches) |-> matches[i].name])

\* matches.map(m => `${m.row}<suffix>`).join(' / ')
TargetRows(matches) ==
    JoinStrings([i \in 1..Len(matches) |-> Digits(matches[i].row) \o <<"ROW_SUFFIX">>])

\* a mutation of MatchType: partial matches are looked at first
MatchTypePartialFirst(exactMatches, partialMatches) ==
    IF Len(partialMatches) > 0 THEN "PARTIAL"
    ELSE IF Len(exactMatches) > 0 THEN "EXACT"
    ELSE "NONE"

\* which branch of the if / else if after the master loop is taken
MatchType(exactMatches, partialMatches) ==
    IF Len(exactMatches) > 0 THEN "EXACT"
    ELSE IF Len(partialMatches) > 0 THEN "PARTIAL"
    ELSE "NONE"

\* a mutation of MergedRowNums: the row number of a merged finding is dropped
MergedRowNumsDropped(rowNums, rowNum) == rowNums

\* existing.rowNums after the includes test and the push
MergedRowNums(rowNums, rowNum) ==
    IF \E i \in 1..Len(rowNums) : rowNums[i] = rowNum
    THEN rowNums ELSE Append(rowNums, rowNum)

\* a mutation of MergedText: the value is appended without the includes test
MergedTextAlwaysAppended(existingText, text) ==
    existingText \o SEPARATOR \o text

\* existing.<field> after the includes test and the += of ' / ' and the value
MergedText(existingText, text) ==
    IF Includes(existingText, text) THEN existingText
    ELSE existingText \o SEPARATOR \o text

\* a mutation of AddResult: every finding is pushed as a new entry
AddResultAlwaysPush(results, type, teamName, rowNum, matchTarget, masterRow, matchedKeyword) ==
    Append(results,
           [type |-> type, teamName |-> teamName, rowNums |-> <<rowNum>>,
            matchTarget |-> matchTarget, masterRow |-> masterRow,
            matchedKeyword |-> matchedKeyword])

AddResult(results, type, teamName, rowNum, matchTarget, masterRow, matchedKeyword) ==
    IF \E i \in 1..Len(results) :
           results[i].type = type /\ results[i].teamName = teamName
    THEN LET i == CHOOSE k \in 1..Len(results) :
                      /\ results[k].type = type /\ results[k].teamName = teamName
                      /\ \A j \in 1..(k - 1) :
                             ~(results[j].type = type /\ results[j].teamName = teamName)
             existing == results[i]
         IN  [results EXCEPT ![i] =
                 [type           |-> existing.type,
                  teamName       |-> existing.teamName,
                  rowNums        |-> MergedRowNums(existing.rowNums, rowNum),
                  matchTarget    |-> MergedText(existing.matchTarget, matchTarget),
                  masterRow      |-> MergedText(existing.masterRow, masterRow),
                  matchedKeyword |-> MergedText(existing.matchedKeyword, matchedKeyword)]]
    ELSE Append(results,
                [type |-> type, teamName |-> teamName, rowNums |-> <<rowNum>>,
                 matchTarget |-> matchTarget, masterRow |-> masterRow,
                 matchedKeyword |-> matchedKeyword])

\* the body of newRecords.forEach for one record
CheckRecord(results, record, masterTeams) ==
    LET newTeam        == Norm(record.teamName)
        rowNum         == record.rowNum
        exactMatches   == ExactMatches(newTeam, masterTeams)
        partialMatches == PartialMatches(newTeam, masterTeams)
        type           == MatchType(exactMatches, partialMatches)
        matches        == IF type = "EXACT" THEN exactMatches ELSE partialMatches
    IN  IF type = "NONE" THEN results
        ELSE AddResult(results, type, newTeam, rowNum, TargetNames(matches),
                       TargetRows(matches), TargetNames(matches))

\* newRecords.forEach from the 1-based position i on
RECURSIVE CheckRecordsFrom(_, _, _, _)
CheckRecordsFrom(newRecords, masterTeams, i, results) ==
    IF i > Len(newRecords) THEN results
    ELSE CheckRecordsFrom(newRecords, masterTeams, i + 1,
                          CheckRecord(results, newRecords[i], masterTeams))

CheckTeamNameDuplicates(newRecords, masterTeams) ==
    CheckRecordsFrom(newRecords, masterTeams, 1, <<>>)

----------------------------------------------------------------------------
(* Specification: checkTeamNameDuplicates on new records and a master list  *)

MaxRecords == 3

\* team names of new records: equal to, containing, contained in or
\* unrelated to the master names, one with a leading space, one empty, one
\* in full-width form, one with an embedded zero-width space
NewTeamNames ==
    {<<"a">>, <<"a", "b">>, <<"SP", "a", "b">>, <<"x">>, <<>>,
     <<"FW_a">>, <<"a", "ZWSP", "b">>}

\* rowNum values of new records, as in the test
RecordRowNums == {10, 20}

Master(name, row) == [name |-> name, row |-> row]

\* master lists: empty, one name, nested names, a repeated name, a name
\* with a trailing space
MasterTeamLists ==
    {<<>>,
     <<Master(<<"a", "b">>, 2)>>,
     <<Master(<<"a">>, 2), Master(<<"a", "b">>, 3)>>,
     <<Master(<<"a">>, 2), Master(<<"b">>, 3), Master(<<"a", "b">>, 4)>>,
     <<Master(<<"a", "b">>, 2), Master(<<"b">>, 4), Master(<<"a", "b">>, 12)>>,
     <<Master(<<"a", "SP">>, 100), Master(<<"b">>, 101)>>}

MatcherInit ==
    /\ pc = "start"
    /\ updatedSheet = << <<EMPTY>> >>
    /\ latestBackupSheet = << <<EMPTY>> >>
    /\ updatedDataMap = <<>>
    /\ updatedThrew = FALSE
    /\ backupDataMap = <<>>
    /\ backupThrew = FALSE
    /\ duplicateErrors = <<>>
    /\ duplicatesThrew = FALSE
    /\ changes = <<>>
    /\ EmailIdle /\ CrossIdle
    /\ LaterIdle
    /\ \E k \in 0..MaxRecords :
           \E names \in [1..k -> NewTeamNames], rows \in [1..k -> RecordRowNums] :
               newRecordList = [i \in 1..k |-> [teamName |-> names[i], rowNum |-> rows[i]]]
    /\ masterTeamList \in MasterTeamLists
    /\ duplicateResults = <<>>

\* checkTeamNameDuplicates(newRecords, masterTeams)
CheckTeamNameDuplicatesCall ==
    /\ pc = "start"
    /\ duplicateResults' = CheckTeamNameDuplicates(newRecordList, masterTeamList)
    /\ pc' = "matched"
    /\ UNCHANGED <<compareVars, emailVars, crossVars, newRecordList, masterTeamList, laterVars>>

MatcherNext == CheckTeamNameDuplicatesCall

SpecMatcher == MatcherInit /\ [][MatcherNext]_vars

----------------------------------------------------------------------------
(* Properties of checkTeamNameDuplicates *)

Matched == pc = "matched"

\* the positions of the masters whose trimmed name equals name
ExactMasters(name) ==
    {m \in 1..Len(masterTeamList) : Trim(masterTeamList[m].name) = name}

\* the positions of the masters whose trimmed name contains name or is
\* contained in it
ContainmentMasters(name) ==
    {m \in 1..Len(masterTeamList) :
        \/ Includes(Trim(masterTeamList[m].name), name)
        \/ Includes(name, Trim(masterTeamList[m].name))}

\* the master names at the positions S, in list order, joined by ' / '
RECURSIVE NamesAt(_, _)
NamesAt(S, m) ==
    IF m > Len(masterTeamList) THEN <<>>
    ELSE (IF m \in S THEN <<masterTeamList[m].name>> ELSE <<>>) \o NamesAt(S, m + 1)

\* the positions of the result entries of a team name
EntriesOf(name) ==
    {r \in 1..Len(duplicateResults) : duplicateResults[r].teamName = name}

\* C18: a record whose trimmed name equals a master name has an entry of type
\* exact whose targets are exactly the equal masters; a record equal to none
\* but containing or contained in a master name has an entry of type partial
\* whose targets are those masters; a record with neither has no entry.
C18_ExactBeforePartial ==
    Matched =>
        \A p \in 1..Len(newRecordList) :
            LET name == Trim(newRecordList[p].teamName)
            IN  IF ExactMasters(name) # {}
                THEN \E r \in 1..Len(duplicateResults) :
                         /\ EntriesOf(name) = {r}
                         /\ duplicateResults[r].type = "EXACT"
                         /\ duplicateResults[r].matchTarget
                                = JoinStrings(NamesAt(ExactMasters(name), 1))
                ELSE IF ContainmentMasters(name) # {}
                THEN \E r \in 1..Len(duplicateResults) :
                         /\ EntriesOf(name) = {r}
                         /\ duplicateResults[r].type = "PARTIAL"
                         /\ duplicateResults[r].matchTarget
                                = JoinStrings(NamesAt(ContainmentMasters(name), 1))
                ELSE EntriesOf(name) = {}

\* C18 witness: a record equal to one master and containing another is
\* reported as exact with the equal master alone, another record is reported
\* as partial, and a third has no entry.
C18_Witness ==
    /\ Matched
    /\ \E p \in 1..Len(newRecordList) :
           LET name == Trim(newRecordList[p].teamName)
           IN  /\ ExactMasters(name) # {}
               /\ ContainmentMasters(name) \ ExactMasters(name) # {}
               /\ \E r \in EntriesOf(name) : duplicateResults[r].type = "EXACT"
    /\ \E r \in 1..Len(duplicateResults) : duplicateResults[r].type = "PARTIAL"
    /\ \E p \in 1..Len(newRecordList) : EntriesOf(Trim(newRecordList[p].teamName)) = {}

\* C19: the result list holds at most one entry per pair of match type and
\* team name.
C19_OneEntryPerTypeAndName ==
    Matched =>
        \A r1, r2 \in 1..Len(duplicateResults) :
            (/\ duplicateResults[r1].type = duplicateResults[r2].type
             /\ duplicateResults[r1].teamName = duplicateResults[r2].teamName)
            => r1 = r2

\* C19 witness: three records, the first and the last with one trimmed name
\* and the middle one with another, all matched; two entries result.
C19_Witness ==
    /\ Matched
    /\ Len(newRecordList) = 3
    /\ Trim(newRecordList[1].teamName) = Trim(newRecordList[3].teamName)
    /\ Trim(newRecordList[1].teamName) # Trim(newRecordList[2].teamName)
    /\ newRecordList[1].rowNum # newRecordList[3].rowNum
    /\ Len(duplicateResults) = 2

\* the positions of the records with the trimmed team name
RecordsOf(name) ==
    {p \in 1..Len(newRecordList) : Trim(newRecordList[p].teamName) = name}

\* the first record of the name with the row number
FirstRecordWith(name, rowNum) ==
    CHOOSE p \in RecordsOf(name) :
        /\ newRecordList[p].rowNum = rowNum
        /\ \A q \in RecordsOf(name) : newRecordList[q].rowNum = rowNum => p <= q

\* C20: the rowNums of a result entry are the rowNum values of the records
\* with the entry's trimmed team name, each once, in input order.
C20_RowNumsOfTheTeam ==
    Matched =>
        \A r \in 1..Len(duplicateResults) :
            LET name    == duplicateResults[r].teamName
                rowNums == duplicateResults[r].rowNums
            IN  /\ {rowNums[i] : i \in 1..Len(rowNums)}
                       = {newRecordList[p].rowNum : p \in RecordsOf(name)}
                /\ \A i, j \in 1..Len(rowNums) :
                       i < j => /\ rowNums[i] # rowNums[j]
                                /\ FirstRecordWith(name, rowNums[i])
                                       < FirstRecordWith(name, rowNums[j])

\* C20 witness: a team found at two row numbers, the larger first, and once
\* more at the first of them; its entry lists the two numbers in that order.
C20_Witness ==
    /\ Matched
    /\ Len(newRecordList) = 3
    /\ \E r \in 1..Len(duplicateResults) :
           /\ RecordsOf(duplicateResults[r].teamName) = {1, 2, 3}
           /\ Len(duplicateResults[r].rowNums) = 2
           /\ duplicateResults[r].rowNums[1] > duplicateResults[r].rowNums[2]
           /\ newRecordList[3].rowNum = newRecordList[1].rowNum

\* the row labels of the masters at the positions S, in list order
RECURSIVE RowLabelsAt(_, _)
RowLabelsAt(S, m) ==
    IF m > Len(masterTeamList) THEN <<>>
    ELSE (IF m \in S THEN <<Digits(masterTeamList[m].row) \o <<"ROW_SUFFIX">> >> ELSE <<>>)
         \o RowLabelsAt(S, m + 1)

\* the positions of the masters an entry is about
MastersOfEntry(entry) ==
    IF entry.type = "EXACT" THEN ExactMasters(entry.teamName)
    ELSE ContainmentMasters(entry.teamName)

\* C21: in every result entry matchTarget, masterRow and matchedKeyword list
\* each matching master once, in master-list order, joined by ' / ', however
\* often the entry's key occurs among the new records.
C21_TargetsListedOnce ==
    Matched =>
        \A r \in 1..Len(duplicateResults) :
            LET entry == duplicateResults[r]
                S     == MastersOfEntry(entry)
            IN  /\ entry.matchTarget = JoinStrings(NamesAt(S, 1))
                /\ entry.masterRow = JoinStrings(RowLabelsAt(S, 1))
                /\ entry.matchedKeyword = JoinStrings(NamesAt(S, 1))

\* C21 witness: a key that occurs three times among the new records and
\* matches two masters; its entry names the two masters once each.
C21_Witness ==
    /\ Matched
    /\ \E r \in 1..Len(duplicateResults) :
           /\ Cardinality(RecordsOf(duplicateResults[r].teamName)) = 3
           /\ Cardinality(MastersOfEntry(duplicateResults[r])) = 2
           /\ duplicateResults[r].masterRow
                  = JoinStrings(RowLabelsAt(MastersOfEntry(duplicateResults[r]), 1))

\* C22: a new record whose team name and a master name are mapped to the
\* same string by the Normalizer is reported as an exact match.
C22_ExactAfterNormalization ==
    Matched =>
        \A p \in 1..Len(newRecordList), m \in 1..Len(masterTeamList) :
            Normalize(newRecordList[p].teamName) = Normalize(masterTeamList[m].name)
            => \E r \in EntriesOf(Trim(newRecordList[p].teamName)) :
                   duplicateResults[r].type = "EXACT"

----------------------------------------------------------------------------
(* Specification: the key normalizer applied to a string and to its own     *)
(* result                                                                   *)

MaxNormLen == 3

\* characters of a team-name cell: plain, full-width, a base letter, its
\* combining mark and their composed form, zero-width and white space
NormTokens == {"a", "FW_a", "e", "ACUTE", "E_ACUTE", "ZWSP", "BOM", "SP"}

\* everything but the three normalizer variables is idle
OnlyNormalizer ==
    /\ updatedSheet = << <<EMPTY>> >>
    /\ latestBackupSheet = << <<EMPTY>> >>
    /\ updatedDataMap = <<>>
    /\ updatedThrew = FALSE
    /\ backupDataMap = <<>>
    /\ backupThrew = FALSE
    /\ duplicateErrors = <<>>
    /\ duplicatesThrew = FALSE
    /\ changes = <<>>
    /\ EmailIdle /\ CrossIdle /\ MatcherIdle

NormInit ==
    /\ pc = "start"
    /\ OnlyNormalizer
    /\ \E k \in 0..MaxNormLen : normInput \in [1..k -> NormTokens]
    /\ normOnce = <<>>
    /\ normTwice = <<>>
    /\ ReportIdle /\ UtilIdle /\ SyncIdle /\ IncIdle

\* normalize(x)
NormalizeOnce ==
    /\ pc = "start"
    /\ normOnce' = Normalize(normInput)
    /\ pc' = "normalized_once"
    /\ UNCHANGED <<compareVars, emailVars, crossVars, matcherVars, incVars, normInput, normTwice,
                   reportVars, utilVars, syncVars>>

\* normalize(normalize(x))
NormalizeAgain ==
    /\ pc = "normalized_once"
    /\ normTwice' = Normalize(normOnce)
    /\ pc' = "normalized_twice"
    /\ UNCHANGED <<compareVars, emailVars, crossVars, matcherVars, incVars, normInput, normOnce,
                   reportVars, utilVars, syncVars>>

NormNext ==
    \/ NormalizeOnce
    \/ NormalizeAgain

SpecNormalizer == NormInit /\ [][NormNext]_vars

\* C23: normalizing the result of the normalizer gives the same string.
C23_NormalizeIdempotent ==
    pc = "normalized_twice" => normTwice = normOnce

----------------------------------------------------------------------------
(* writeResults *)

\* the header row written to A1:E1
RESULTS_HEADER ==
    <<COLUMN_DEF.TEAM_NAME, <<"TO_AFTER">>, <<"CC_AFTER">>, <<"CHANGE_TYPE">>,
      <<"REMARK">> >>

\* a mutation of FinalResults: the findings are left out of the report
FinalResultsChangesOnly(duplicates, emailErrors, changeRows) == changeRows

\* [...duplicateErrors, ...emailFormatErrors, ...changes]
FinalResults(duplicates, emailErrors, changeRows) ==
    duplicates \o emailErrors \o changeRows

\* the sheet after clear(), the header and the rows of differences
WrittenResults(differences) ==
    [exists |-> TRUE, rows |-> <<RESULTS_HEADER>> \o differences]

----------------------------------------------------------------------------
(* Specification: compareAndUpdateResults_refactored from the reading of    *)
(* the two sheets to the writing of the results sheet; a throw ends the run *)
(* in the catch block.                                                      *)

MaxReportRows == 2

\* current rows with well-formed and malformed addresses, one team twice
ReportPool ==
    {Fields(<<"a">>, VALID_ADDRESS, EMPTY, EMPTY, EMPTY, EMPTY, EMPTY),
     Fields(<<"a">>, <<"x">>, EMPTY, EMPTY, EMPTY, EMPTY, EMPTY),
     Fields(<<"b">>, VALID_ADDRESS, <<"y">>, EMPTY, EMPTY, EMPTY, EMPTY),
     Fields(<<"b">>, EMPTY, EMPTY, <<"1">>, EMPTY, EMPTY, EMPTY)}

\* the latest backup: without data rows, with one team, without a team column
ReportBackups ==
    {Sheet(FullHeader, <<>>),
     Sheet(FullHeader, <<Fields(<<"a">>, VALID_ADDRESS, EMPTY, EMPTY, EMPTY, EMPTY, EMPTY)>>),
     Sheet(<<COLUMN_DEF.TO, COLUMN_DEF.CC>>,
           <<Fields(<<"a">>, VALID_ADDRESS, EMPTY, EMPTY, EMPTY, EMPTY, EMPTY)>>)}

\* the results sheet left by an earlier run
OLD_RESULTS ==
    WrittenResults(<< <<(<<"o">>), VALID_ADDRESS, <<>>, "C", <<>> >> >>)

PreviousResults == {NO_SHEET, OLD_RESULTS}

ReportInit ==
    /\ pc = "start"
    /\ \E h \in Layouts, k \in 0..MaxReportRows :
           \E rows \in [1..k -> ReportPool] : updatedSheet = Sheet(h, rows)
    /\ latestBackupSheet \in ReportBackups
    /\ updatedDataMap = <<>>
    /\ updatedThrew = FALSE
    /\ backupDataMap = <<>>
    /\ backupThrew = FALSE
    /\ duplicateErrors = <<>>
    /\ duplicatesThrew = FALSE
    /\ changes = <<>>
    /\ EmailIdle /\ CrossIdle /\ MatcherIdle
    /\ NormIdle /\ UtilIdle /\ SyncIdle /\ IncIdle
    /\ resultsSheet \in PreviousResults

\* a mutation of ExtractBackup: the missing-column error of the backup sheet
\* is swallowed and the run goes on
ExtractBackupContinuing ==
    /\ pc = "updated_extracted"
    /\ LET r == ExtractDataAsMap(latestBackupSheet)
       IN  /\ backupDataMap' = r.map
           /\ backupThrew' = r.threw
           /\ pc' = "backup_extracted"
    /\ UNCHANGED <<updatedSheet, latestBackupSheet, updatedDataMap, updatedThrew,
                   duplicateErrors, duplicatesThrew, changes>>
    /\ UNCHANGED <<emailVars, crossVars, matcherVars, laterVars>>

\* const updatedDataMap = extractDataAsMap(updatedSheet)
ReportExtractUpdated == ExtractUpdated

\* const backupDataMap = extractDataAsMap(latestBackupSheet)
ReportExtractBackup == ExtractBackup

\* const duplicateErrors = findDuplicates(updatedSheet)
ReportCheckDuplicates == CheckDuplicates

\* const emailFormatErrors = findInvalidEmails(updatedDataMap)
ReportCheckEmails ==
    /\ pc = "duplicates_checked"
    /\ emailFormatErrors' = FindInvalidEmails(updatedDataMap)
    /\ pc' = "emails_checked"
    /\ UNCHANGED <<compareVars, emailLines, emailsValid, crossVars, matcherVars, laterVars>>

\* const changes = findChanges(updatedDataMap, backupDataMap)
ReportCompareMaps ==
    /\ pc = "emails_checked"
    /\ changes' = FindChanges(updatedDataMap, backupDataMap)
    /\ pc' = "compared"
    /\ UNCHANGED <<updatedSheet, latestBackupSheet, updatedDataMap, updatedThrew,
                   backupDataMap, backupThrew, duplicateErrors, duplicatesThrew>>
    /\ UNCHANGED <<emailVars, crossVars, matcherVars, laterVars>>

\* writeResults(mailSettingsSpreadsheet, finalResults)
WriteResults ==
    /\ pc = "compared"
    /\ resultsSheet' =
           WrittenResults(FinalResults(duplicateErrors, emailFormatErrors, changes))
    /\ pc' = "written"
    /\ UNCHANGED <<compareVars, emailVars, crossVars, matcherVars, incVars, normVars, utilVars,
                   syncVars>>

ReportNext ==
    \/ ReportExtractUpdated
    \/ ReportExtractBackup
    \/ ReportCheckDuplicates
    \/ ReportCheckEmails
    \/ ReportCompareMaps
    \/ WriteResults

SpecReport == ReportInit /\ [][ReportNext]_vars

----------------------------------------------------------------------------
(* Properties of compareAndUpdateResults_refactored *)

\* the header row of the sheet lacks the team-name, TO or CC label
MissingColumn(data) ==
    \E label \in {COLUMN_DEF.TEAM_NAME, COLUMN_DEF.TO, COLUMN_DEF.CC} :
        \A c \in 1..Len(data[1]) : data[1][c] # label

StructuralError == MissingColumn(updatedSheet) \/ MissingColumn(latestBackupSheet)

\* C24: the results sheet changes only in the writeResults step, and the run
\* gets there only when neither sheet lacks a mandatory column; a run ends in
\* the catch block only when one does, and then leaves the results sheet as
\* it was; once the duplicate check has returned, the run goes on, whatever
\* duplicates and invalid addresses it found, and writes all its findings and
\* changes under the header row.
C24_StructuralErrorAborts ==
    [][/\ resultsSheet' # resultsSheet => pc = "compared" /\ pc' = "written"
       /\ pc' = "written" => ~StructuralError
       /\ pc' = "failed" => StructuralError /\ resultsSheet' = resultsSheet
       /\ pc = "duplicates_checked" => pc' = "emails_checked"
       /\ pc = "emails_checked" => pc' = "compared"
       /\ pc = "compared"
          => /\ pc' = "written"
             /\ resultsSheet' = WrittenResults(duplicateErrors \o emailFormatErrors
                                               \o changes)]_vars

\* the run was aborted by the backup sheet's missing column after the current
\* sheet, with a duplicated team in it, had been read, and the old results
\* are still there
C24_Witness ==
    /\ pc = "failed"
    /\ backupThrew
    /\ Len(updatedDataMap) > 0
    /\ Len(updatedSheet) > Len(updatedDataMap) + 1
    /\ resultsSheet = OLD_RESULTS

\* a report with a duplicate row and an invalid-address row has replaced the
\* old results
ReportWrittenDespiteFindings ==
    /\ pc = "written"
    /\ duplicateErrors # <<>>
    /\ emailFormatErrors # <<>>
    /\ resultsSheet # OLD_RESULTS
    /\ Len(resultsSheet.rows)
       = 1 + Len(duplicateErrors) + Len(emailFormatErrors) + Len(changes)

----------------------------------------------------------------------------
(* columnLetterToIndex and columnIndexToLetter; a string is the sequence of *)
(* its character codes                                                      *)

\* the character code of 'A'
CHAR_CODE_A == 65

\* a mutation of LetterToIndexFrom: plain base 26, without the + 1 per letter
RECURSIVE LetterToIndexPlainBase(_, _, _)
LetterToIndexPlainBase(columnLetterArg, i, result) ==
    IF i >= Len(columnLetterArg) THEN result - 1
    ELSE LET char == columnLetterArg[i + 1] - CHAR_CODE_A
         IN  IF char < 0 \/ char > 25 THEN -1
             ELSE LetterToIndexPlainBase(columnLetterArg, i + 1, result * 26 + char)

\* the loop of columnLetterToIndex; i is the 0-based position
RECURSIVE LetterToIndexFrom(_, _, _)
LetterToIndexFrom(columnLetterArg, i, result) ==
    IF i >= Len(columnLetterArg) THEN result - 1
    ELSE LET char == columnLetterArg[i + 1] - CHAR_CODE_A
         IN  IF char < 0 \/ char > 25 THEN -1
             ELSE LetterToIndexFrom(columnLetterArg, i + 1, result * 26 + char + 1)

ColumnLetterToIndex(columnLetterArg) ==
    IF columnLetterArg = <<>> THEN -1
    ELSE LetterToIndexFrom(columnLetterArg, 0, 0)

\* Math.floor(columnIndex / 26) for columnIndex >= 0
FloorDiv26(n) == n \div 26

\* the loop of columnIndexToLetter
RECURSIVE IndexToLetterFrom(_, _)
IndexToLetterFrom(columnIndexArg, result) ==
    IF columnIndexArg >= 0
    THEN IndexToLetterFrom(FloorDiv26(columnIndexArg) - 1,
                           <<CHAR_CODE_A + (columnIndexArg % 26)>> \o result)
    ELSE result

ColumnIndexToLetter(columnIndexArg) == IndexToLetterFrom(columnIndexArg, <<>>)

----------------------------------------------------------------------------
(* Specification: the two column conversions, each applied to an argument   *)
(* and then to the other's result                                           *)

\* indices up to the first three-letter columns
MaxColumnIndex == 710

MaxColumnLen == 3

\* '@', 'A', 'B', 'Z', '[' and 'a'
ColumnChars ==
    {CHAR_CODE_A - 1, CHAR_CODE_A, CHAR_CODE_A + 1, CHAR_CODE_A + 25,
     CHAR_CODE_A + 26, CHAR_CODE_A + 32}

UtilInit ==
    /\ OnlyNormalizer
    /\ NormIdle /\ ReportIdle /\ SyncIdle /\ IncIdle
    /\ backIndex = 0
    /\ backLetter = <<>>
    /\ \/ /\ pc = "index_given"
          /\ columnIndex \in 0..MaxColumnIndex
          /\ columnLetter = <<>>
       \/ /\ pc = "letter_given"
          /\ columnIndex = 0
          /\ \E k \in 0..MaxColumnLen : columnLetter \in [1..k -> ColumnChars]

\* columnIndexToLetter(n), and columnIndexToLetter of an index just computed
ColumnIndexToLetterCall ==
    /\ \/ /\ pc = "index_given"
          /\ columnLetter' = ColumnIndexToLetter(columnIndex)
          /\ pc' = "letter_computed"
          /\ UNCHANGED backLetter
       \/ /\ pc = "index_computed"
          /\ backLetter' = ColumnIndexToLetter(columnIndex)
          /\ pc' = "letter_round_trip"
          /\ UNCHANGED columnLetter
    /\ UNCHANGED <<compareVars, emailVars, crossVars, matcherVars, incVars, normVars, reportVars,
                   syncVars, columnIndex, backIndex>>

\* columnLetterToIndex(s), and columnLetterToIndex of a letter just computed
ColumnLetterToIndexCall ==
    /\ \/ /\ pc = "letter_given"
          /\ columnIndex' = ColumnLetterToIndex(columnLetter)
          /\ pc' = "index_computed"
          /\ UNCHANGED backIndex
       \/ /\ pc = "letter_computed"
          /\ backIndex' = ColumnLetterToIndex(columnLetter)
          /\ pc' = "index_round_trip"
          /\ UNCHANGED columnIndex
    /\ UNCHANGED <<compareVars, emailVars, crossVars, matcherVars, incVars, normVars, reportVars,
                   syncVars, columnLetter, backLetter>>

UtilNext ==
    \/ ColumnIndexToLetterCall
    \/ ColumnLetterToIndexCall

SpecUtils == UtilInit /\ [][UtilNext]_vars

----------------------------------------------------------------------------
(* Properties of the column conversions *)

\* a non-empty string of the letters A..Z
IsColumnLetter(str) ==
    /\ str # <<>>
    /\ \A i \in 1..Len(str) : str[i] \in CHAR_CODE_A..(CHAR_CODE_A + 25)

\* C25: the letter of an index n >= 0 converts back to n, with A = 0, Z = 25
\* and AA = 26; the index of a non-empty string of letters A..Z converts back
\* to the string; the index of any other string is -1.
C25_ColumnConversionsInverse ==
    /\ pc = "index_round_trip"
       => /\ backIndex = columnIndex
          /\ columnIndex = 0 => columnLetter = <<CHAR_CODE_A>>
          /\ columnIndex = 25 => columnLetter = <<CHAR_CODE_A + 25>>
          /\ columnIndex = 26 => columnLetter = <<CHAR_CODE_A, CHAR_CODE_A>>
    /\ pc = "letter_round_trip"
       => IF IsColumnLetter(columnLetter)
          THEN columnIndex >= 0 /\ backLetter = columnLetter
          ELSE columnIndex = -1

\* ZZ has been converted to 701 and back
C25_Witness ==
    /\ pc = "letter_round_trip"
    /\ columnLetter = <<CHAR_CODE_A + 25, CHAR_CODE_A + 25>>
    /\ columnIndex = 701
    /\ backLetter = columnLetter

\* 702 has been converted to AAA and back
IndexRoundTripOfAAA ==
    /\ pc = "index_round_trip"
    /\ columnIndex = 702
    /\ columnLetter = <<CHAR_CODE_A, CHAR_CODE_A, CHAR_CODE_A>>

----------------------------------------------------------------------------
(* reconstructFinalData *)

\* the header labels of the cleaned source sheet
SOURCE_TO == <<"SOURCE_TO">>

SOURCE_CC == <<"SOURCE_CC">>

\* new Map(pairs): a repeated key keeps its first position and takes the last
\* value; i is the 1-based position in pairs
RECURSIVE MapFromPairs(_, _, _)
MapFromPairs(pairs, i, m) ==
    IF i > Len(pairs) THEN m
    ELSE MapFromPairs(pairs, i + 1, MapSet(m, pairs[i][1], pairs[i][2]))

\* sourceData.slice(1).map(row => [team, {to, cc}])
SourcePairs(sourceData, sourceTeamIdx, sourceToIdx, sourceCcIdx) ==
    [r \in 1..(Len(sourceData) - 1) |->
        <<At(sourceData[r + 1], sourceTeamIdx),
          [to |-> At(sourceData[r + 1], sourceToIdx),
           cc |-> At(sourceData[r + 1], sourceCcIdx)]>>]

\* targetData.slice(2).map(row => [team, row])
TargetPairs(targetData, targetTeamIdx) ==
    IF Len(targetData) <= 2 THEN <<>>
    ELSE [r \in 1..(Len(targetData) - 2) |->
             <<At(targetData[r + 2], targetTeamIdx), targetData[r + 2]>>]

\* updatedRow after the comparison with sourceInfo
UpdatedRow(originalRow, sourceInfo, targetToIdx, targetCcIdx) ==
    IF At(originalRow, targetToIdx) # sourceInfo.to
       \/ At(originalRow, targetCcIdx) # sourceInfo.cc
    THEN [originalRow EXCEPT ![targetToIdx + 1] = sourceInfo.to,
                             ![targetCcIdx + 1] = sourceInfo.cc]
    ELSE originalRow

\* the loop over targetMap.entries(); i is the 1-based position, acc is
\* [finalData, stats]
RECURSIVE TargetLoop(_, _, _, _, _, _)
TargetLoop(targetMap, sourceMap, targetToIdx, targetCcIdx, i, acc) ==
    IF i > Len(targetMap) THEN acc
    ELSE LET teamName    == targetMap[i].key
             originalRow == targetMap[i].entry
         IN  IF MapHas(sourceMap, teamName)
             THEN LET sourceInfo == MapGet(sourceMap, teamName)
                      updatedRow == UpdatedRow(originalRow, sourceInfo,
                                               targetToIdx, targetCcIdx)
                      changed    == \/ At(originalRow, targetToIdx) # sourceInfo.to
                                    \/ At(originalRow, targetCcIdx) # sourceInfo.cc
                  IN  TargetLoop(targetMap, sourceMap, targetToIdx, targetCcIdx, i + 1,
                          [finalData |-> Append(acc.finalData, updatedRow),
                           stats |-> IF changed
                                     THEN [acc.stats EXCEPT !.updated = @ + 1]
                                     ELSE acc.stats])
             ELSE TargetLoop(targetMap, sourceMap, targetToIdx, targetCcIdx, i + 1,
                      [acc EXCEPT !.stats.deleted = @ + 1])

\* new Array(targetHeaders.length).fill('') with the three cells set
NewRow(width, teamName, sourceInfo, targetTeamIdx, targetToIdx, targetCcIdx) ==
    [c \in 1..width |->
        IF c = targetCcIdx + 1 THEN sourceInfo.cc
        ELSE IF c = targetToIdx + 1 THEN sourceInfo.to
        ELSE IF c = targetTeamIdx + 1 THEN teamName
        ELSE <<>>]

\* the loop over sourceMap.entries()
RECURSIVE SourceLoop(_, _, _, _, _, _, _, _)
SourceLoop(sourceMap, targetMap, width, targetTeamIdx, targetToIdx, targetCcIdx, i, acc) ==
    IF i > Len(sourceMap) THEN acc
    ELSE LET teamName   == sourceMap[i].key
             sourceInfo == sourceMap[i].entry
         IN  IF ~MapHas(targetMap, teamName)
             THEN SourceLoop(sourceMap, targetMap, width, targetTeamIdx, targetToIdx,
                      targetCcIdx, i + 1,
                      [finalData |-> Append(acc.finalData,
                                            NewRow(width, teamName, sourceInfo,
                                                   targetTeamIdx, targetToIdx, targetCcIdx)),
                       stats |-> [acc.stats EXCEPT !.appended = @ + 1]])
             ELSE SourceLoop(sourceMap, targetMap, width, targetTeamIdx, targetToIdx,
                      targetCcIdx, i + 1, acc)

\* the result is [finalData, stats]
ReconstructFinalData(sourceData, targetData) ==
    LET sourceHeaders == sourceData[1]
        targetHeaders == targetData[1]
        sourceTeamIdx == IndexOf(sourceHeaders, COLUMN_DEF.TEAM_NAME)
        sourceToIdx   == IndexOf(sourceHeaders, SOURCE_TO)
        sourceCcIdx   == IndexOf(sourceHeaders, SOURCE_CC)
        targetTeamIdx == IndexOf(targetHeaders, COLUMN_DEF.TEAM_NAME)
        targetToIdx   == IndexOf(targetHeaders, COLUMN_DEF.TO)
        targetCcIdx   == IndexOf(targetHeaders, COLUMN_DEF.CC)
        sourceMap     == MapFromPairs(SourcePairs(sourceData, sourceTeamIdx,
                                                  sourceToIdx, sourceCcIdx), 1, <<>>)
        targetMap     == MapFromPairs(TargetPairs(targetData, targetTeamIdx), 1, <<>>)
        kept          == TargetLoop(targetMap, sourceMap, targetToIdx, targetCcIdx, 1,
                                    NO_RESULT)
    IN  SourceLoop(sourceMap, targetMap, Len(targetHeaders), targetTeamIdx,
                   targetToIdx, targetCcIdx, 1, kept)

----------------------------------------------------------------------------
(* backupSheet and updateSheetWithData *)

\* a row of `width` empty cells
BlankRow(width) == [c \in 1..width |-> <<>>]

\* the rows of the sheet after the clearing of rows 3.. and the writing of
\* data from row 3
UpdateSheetWithData(rows, data) ==
    LET headerRows == SubSeq(rows, 1, IF Len(rows) > 2 THEN 2 ELSE Len(rows))
    IN  IF Len(data) > 0
        THEN headerRows
             \o (IF Len(headerRows) < 2 THEN <<BlankRow(Len(rows[1]))>> ELSE <<>>)
             \o data
        ELSE headerRows

----------------------------------------------------------------------------
(* Specification: updateMailSettings_refactored, from the lookup of the     *)
(* mail-settings sheet to the writing of the reconstructed rows; a throw    *)
(* ends the run in the catch block.                                         *)

MaxSyncSourceRows == 2

MaxSyncTargetRows == 3

SyncSourceHeader == <<COLUMN_DEF.TEAM_NAME, SOURCE_TO, SOURCE_CC>>

\* the two header rows of the mail-settings sheet, with a column of its own
SyncTargetHeader == <<(<<"OTHER">>), COLUMN_DEF.TEAM_NAME, COLUMN_DEF.TO, COLUMN_DEF.CC>>

SyncSecondHeader == <<(<<"NOTE">>), <<>>, <<>>, <<>> >>

\* source rows [team, to, cc]: one team with two address sets, two more teams
SyncSourcePool ==
    {<<(<<"a">>), <<"x">>, <<>> >>,
     <<(<<"a">>), <<"y">>, <<>> >>,
     <<(<<"b">>), <<"x">>, <<"y">> >>,
     <<(<<"c">>), <<"y">>, <<>> >>}

\* target rows [other, team, to, cc]: one team on two different rows, a team
\* of the source and a team the source does not have
SyncTargetPool ==
    {<<(<<"1">>), <<"a">>, <<"x">>, <<>> >>,
     <<(<<>>), <<"a">>, <<"y">>, <<>> >>,
     <<(<<"1">>), <<"b">>, <<"x">>, <<>> >>,
     <<(<<>>), <<"d">>, <<"x">>, <<"y">> >>}

\* the backup sheet left by an earlier run
OLD_BACKUP == <<SyncTargetHeader, SyncSecondHeader>>

SyncInit ==
    /\ pc = "start"
    /\ OnlyNormalizer
    /\ NormIdle /\ ReportIdle /\ UtilIdle /\ IncIdle
    /\ \/ cleanedSheet = NO_SHEET
       \/ \E k \in 0..MaxSyncSourceRows : \E rows \in [1..k -> SyncSourcePool] :
              cleanedSheet = [exists |-> TRUE, rows |-> <<SyncSourceHeader>> \o rows]
    /\ \/ targetSheet = NO_SHEET
       \/ targetSheet = [exists |-> TRUE, rows |-> <<SyncTargetHeader>>]
       \/ \E k \in 0..MaxSyncTargetRows : \E rows \in [1..k -> SyncTargetPool] :
              targetSheet = [exists |-> TRUE,
                             rows |-> <<SyncTargetHeader, SyncSecondHeader>> \o rows]
    /\ readSource = <<>>
    /\ readTarget = <<>>
    /\ backupSheets = <<OLD_BACKUP>>
    /\ backupSheetName = 0
    /\ syncResult = NO_RESULT

\* const targetSheet = ...getSheetByName(...); if (!targetSheet) throw
GetTargetSheet ==
    /\ pc = "start"
    /\ pc' = IF targetSheet.exists THEN "target_found" ELSE "sync_failed"
    /\ UNCHANGED <<compareVars, emailVars, crossVars, matcherVars, laterVars>>

\* const sourceData = getSheetData(...): throws when the sheet is missing
ReadSourceData ==
    /\ pc = "target_found"
    /\ IF cleanedSheet.exists
       THEN readSource' = cleanedSheet.rows /\ pc' = "source_read"
       ELSE readSource' = readSource /\ pc' = "sync_failed"
    /\ UNCHANGED <<compareVars, emailVars, crossVars, matcherVars, incVars, normVars, reportVars,
                   utilVars, cleanedSheet, targetSheet, readTarget, backupSheets,
                   backupSheetName, syncResult>>

\* const targetData = targetSheet.getDataRange().getValues()
ReadTargetData ==
    /\ pc = "source_read"
    /\ readTarget' = targetSheet.rows
    /\ pc' = "target_read"
    /\ UNCHANGED <<compareVars, emailVars, crossVars, matcherVars, incVars, normVars, reportVars,
                   utilVars, cleanedSheet, targetSheet, readSource, backupSheets,
                   backupSheetName, syncResult>>

\* a mutation of BackupSheet: the run goes on without copying the sheet
BackupSheetSkipped ==
    /\ pc = "target_read"
    /\ pc' = "backed_up"
    /\ UNCHANGED <<compareVars, emailVars, crossVars, matcherVars, laterVars>>

\* const backupSheetName = backupSheet(targetSheet)
BackupSheet ==
    /\ pc = "target_read"
    /\ backupSheets' = Append(backupSheets, targetSheet.rows)
    /\ backupSheetName' = Len(backupSheets) + 1
    /\ pc' = "backed_up"
    /\ UNCHANGED <<compareVars, emailVars, crossVars, matcherVars, incVars, normVars, reportVars,
                   utilVars, cleanedSheet, targetSheet, readSource, readTarget, syncResult>>

\* const result = reconstructFinalData(sourceData, targetData)
Reconstruct ==
    /\ pc = "backed_up"
    /\ syncResult' = ReconstructFinalData(readSource, readTarget)
    /\ pc' = "reconstructed"
    /\ UNCHANGED <<compareVars, emailVars, crossVars, matcherVars, incVars, normVars, reportVars,
                   utilVars, cleanedSheet, targetSheet, readSource, readTarget,
                   backupSheets, backupSheetName>>

\* updateSheetWithData(targetSheet, result.finalData)
UpdateSheet ==
    /\ pc = "reconstructed"
    /\ targetSheet' = [targetSheet EXCEPT
                          !.rows = UpdateSheetWithData(@, syncResult.finalData)]
    /\ pc' = "sheet_updated"
    /\ UNCHANGED <<compareVars, emailVars, crossVars, matcherVars, incVars, normVars, reportVars,
                   utilVars, cleanedSheet, readSource, readTarget, backupSheets,
                   backupSheetName, syncResult>>

SyncNext ==
    \/ GetTargetSheet
    \/ ReadSourceData
    \/ ReadTargetData
    \/ BackupSheet
    \/ Reconstruct
    \/ UpdateSheet

SpecSync == SyncInit /\ [][SyncNext]_vars

----------------------------------------------------------------------------
(* Properties of reconstructFinalData *)

Reconstructed == pc = "reconstructed"

\* the data rows the function was given
SourceRowsRead == Tail(readSource)

TargetRowsRead ==
    IF Len(readTarget) > 2 THEN SubSeq(readTarget, 3, Len(readTarget)) ELSE <<>>

\* the cell of a row under a header label
SourceCell(row, label) == At(row, IndexOf(readSource[1], label))

TargetCell(row, label) == At(row, IndexOf(readTarget[1], label))

SourceTeams ==
    {SourceCell(SourceRowsRead[i], COLUMN_DEF.TEAM_NAME) : i \in 1..Len(SourceRowsRead)}

TargetTeams ==
    {TargetCell(TargetRowsRead[i], COLUMN_DEF.TEAM_NAME) : i \in 1..Len(TargetRowsRead)}

\* the last row of a team in a sequence of source or target rows
LastSourceRow(team) ==
    SourceRowsRead[CHOOSE i \in 1..Len(SourceRowsRead) :
        /\ SourceCell(SourceRowsRead[i], COLUMN_DEF.TEAM_NAME) = team
        /\ \A j \in (i + 1)..Len(SourceRowsRead) :
               SourceCell(SourceRowsRead[j], COLUMN_DEF.TEAM_NAME) # team]

LastTargetRow(team) ==
    TargetRowsRead[CHOOSE i \in 1..Len(TargetRowsRead) :
        /\ TargetCell(TargetRowsRead[i], COLUMN_DEF.TEAM_NAME) = team
        /\ \A j \in (i + 1)..Len(TargetRowsRead) :
               TargetCell(TargetRowsRead[j], COLUMN_DEF.TEAM_NAME) # team]

\* two target rows agree in every column but TO and CC
SameOtherColumns(row1, row2) ==
    /\ Len(row1) = Len(row2)
    /\ \A c \in 1..Len(row1) :
           readTarget[1][c] \notin {COLUMN_DEF.TO, COLUMN_DEF.CC} => row1[c] = row2[c]

\* the addresses of the team's target row differ from the source's
AddressesDiffer(team) ==
    \/ TargetCell(LastTargetRow(team), COLUMN_DEF.TO)
       # SourceCell(LastSourceRow(team), SOURCE_TO)
    \/ TargetCell(LastTargetRow(team), COLUMN_DEF.CC)
       # SourceCell(LastSourceRow(team), SOURCE_CC)

\* the teams of finalData are the teams of the source, and every row carries
\* the source's addresses of its team
FinalDataFollowsSource ==
    LET finalRows == syncResult.finalData
    IN  /\ {TargetCell(finalRows[i], COLUMN_DEF.TEAM_NAME) : i \in 1..Len(finalRows)}
           = SourceTeams
        /\ \A i \in 1..Len(finalRows) :
               LET team == TargetCell(finalRows[i], COLUMN_DEF.TEAM_NAME)
               IN  /\ TargetCell(finalRows[i], COLUMN_DEF.TO)
                      = SourceCell(LastSourceRow(team), SOURCE_TO)
                   /\ TargetCell(finalRows[i], COLUMN_DEF.CC)
                      = SourceCell(LastSourceRow(team), SOURCE_CC)

\* the rows of teams the target has come first and are target rows, taken in
\* target order, with their columns other than TO and CC; the rows after them
\* are of teams new to the target
TargetRowsKeptInOrder ==
    LET finalRows == syncResult.finalData
        InTarget(j) == TargetCell(finalRows[j], COLUMN_DEF.TEAM_NAME) \in TargetTeams
        keptCount == Cardinality({j \in 1..Len(finalRows) : InTarget(j)})
    IN  /\ \A j \in 1..Len(finalRows) : InTarget(j) <=> j <= keptCount
        /\ \E f \in [1..keptCount -> 1..Len(TargetRowsRead)] :
               /\ \A j \in 1..keptCount :
                      SameOtherColumns(finalRows[j], TargetRowsRead[f[j]])
               /\ \A j \in 1..(keptCount - 1) : f[j] < f[j + 1]

StatsCountTeams ==
    /\ syncResult.stats.deleted = Cardinality(TargetTeams \ SourceTeams)
    /\ syncResult.stats.appended = Cardinality(SourceTeams \ TargetTeams)
    /\ syncResult.stats.updated
       = Cardinality({team \in TargetTeams \cap SourceTeams : AddressesDiffer(team)})

\* C26: finalData has the source's teams and addresses, keeps the target rows
\* of common teams with their other columns in target order ahead of the
\* appended rows, and the statistics count the deleted, appended and updated
\* teams.
C26_TargetSynchronized ==
    Reconstructed
    => FinalDataFollowsSource /\ TargetRowsKeptInOrder /\ StatsCountTeams

\* the same, for targets that have every team on one row only
NoTeamTwiceInTarget ==
    \A i, j \in 1..Len(TargetRowsRead) :
        TargetCell(TargetRowsRead[i], COLUMN_DEF.TEAM_NAME)
        = TargetCell(TargetRowsRead[j], COLUMN_DEF.TEAM_NAME) => i = j

SynchronizedWithoutRepeatedTeams ==
    Reconstructed /\ NoTeamTwiceInTarget
    => FinalDataFollowsSource /\ TargetRowsKeptInOrder /\ StatsCountTeams

\* whatever the target, the teams, the addresses and the statistics are right
SynchronizedButForKeptRows ==
    Reconstructed => FinalDataFollowsSource /\ StatsCountTeams

----------------------------------------------------------------------------
(* Properties of updateMailSettings_refactored *)

\* C27: whenever the mail-settings sheet is changed, this run has created a
\* backup sheet and that backup holds the rows the sheet had before the
\* change; the sheet is changed only by the final write of a run that has read
\* the cleaned source sheet, and a step into the catch block leaves it as it
\* was.
C27_BackupBeforeWrite ==
    [][/\ targetSheet' # targetSheet
          => /\ backupSheetName \in 1..Len(backupSheets)
             /\ backupSheets[backupSheetName] = targetSheet.rows
             /\ pc = "reconstructed"
             /\ cleanedSheet.exists
       /\ pc' = "sync_failed" => targetSheet' = targetSheet]_vars

\* the sheet has been rewritten with other rows and the backup of this run
\* holds the rows it had before
C27_Witness ==
    /\ pc = "sheet_updated"
    /\ backupSheetName = Len(backupSheets)
    /\ backupSheets[backupSheetName] = readTarget
    /\ targetSheet.rows # readTarget

\* the cleaned source sheet could not be read and the mail-settings sheet has
\* no new backup
SourceReadFailed ==
    /\ pc = "sync_failed"
    /\ targetSheet.exists
    /\ ~cleanedSheet.exists
    /\ backupSheetName = 0

----------------------------------------------------------------------------
(* getNewProcurementRecords and the history sheet *)

\* COLUMN_DEF.ORDER_NUMBER
ORDER_NUMBER == <<"ORDER_NUMBER">>

\* parseInt(CONFIG.PROCUREMENT_DATA_RANGE.match(/[0-9]+/)[0], 10)
DATA_START_ROW == 21

\* Array.prototype.findIndex on the header cells, for `includes(label)`
FindIndexIncluding(headerValues, label) ==
    IF \E i \in 1..Len(headerValues) : Includes(headerValues[i], label)
    THEN (CHOOSE i \in 1..Len(headerValues) :
              /\ Includes(headerValues[i], label)
              /\ \A j \in 1..(i - 1) : ~Includes(headerValues[j], label)) - 1
    ELSE -1

\* getLastProcessedOrderNumber: String(B2).trim(), '' under a lone header row
GetLastProcessedOrderNumber(historyRows) ==
    IF historyRows = <<>> THEN <<>> ELSE Trim(historyRows[1][2])

\* getHistorySheet: the sheet, created with its header row when it is missing
GetHistorySheet(sheet) == [sheet EXCEPT !.exists = TRUE]

\* a mutation of CollectFrom: the row that carries the last processed order
\* number is collected as well
RECURSIVE CollectFromInclusive(_, _, _, _, _, _, _)
CollectFromInclusive(dataValues, teamNameIndex, orderNumIdx, lastProcessedOrderNum, i, startCollecting, acc) ==
    IF i >= Len(dataValues) THEN acc
    ELSE LET row      == dataValues[i + 1]
             teamName == At(row, teamNameIndex)
             orderNum == Trim(At(row, orderNumIdx))
             starts   == startCollecting \/ orderNum = lastProcessedOrderNum
         IN  IF ~Truthy(teamName) /\ ~Truthy(orderNum)
             THEN CollectFromInclusive(dataValues, teamNameIndex, orderNumIdx,
                                       lastProcessedOrderNum, i + 1, startCollecting, acc)
             ELSE IF ~starts
             THEN CollectFromInclusive(dataValues, teamNameIndex, orderNumIdx,
                                       lastProcessedOrderNum, i + 1, FALSE, acc)
             ELSE IF Truthy(teamName)
             THEN CollectFromInclusive(dataValues, teamNameIndex, orderNumIdx,
                      lastProcessedOrderNum, i + 1, TRUE,
                      [newRecords |-> Append(acc.newRecords,
                                             [teamName |-> Trim(teamName),
                                              orderNumber |-> orderNum,
                                              rowNum |-> DATA_START_ROW + i]),
                       lastOrderNumber |-> IF Truthy(orderNum) THEN orderNum
                                           ELSE acc.lastOrderNumber,
                       lastTeamName |-> IF Truthy(orderNum) THEN Trim(teamName)
                                        ELSE acc.lastTeamName])
             ELSE CollectFromInclusive(dataValues, teamNameIndex, orderNumIdx,
                                       lastProcessedOrderNum, i + 1, TRUE, acc)

\* the loop over dataValues; i is the 0-based row offset, acc is
\* [newRecords, lastOrderNumber, lastTeamName]
RECURSIVE CollectFrom(_, _, _, _, _, _, _)
CollectFrom(dataValues, teamNameIndex, orderNumIdx, lastProcessedOrderNum, i, startCollecting, acc) ==
    IF i >= Len(dataValues) THEN acc
    ELSE LET row      == dataValues[i + 1]
             teamName == At(row, teamNameIndex)
             orderNum == Trim(At(row, orderNumIdx))
         IN  IF ~Truthy(teamName) /\ ~Truthy(orderNum)
             THEN CollectFrom(dataValues, teamNameIndex, orderNumIdx,
                              lastProcessedOrderNum, i + 1, startCollecting, acc)
             ELSE IF ~startCollecting
             THEN CollectFrom(dataValues, teamNameIndex, orderNumIdx,
                              lastProcessedOrderNum, i + 1,
                              orderNum = lastProcessedOrderNum, acc)
             ELSE IF Truthy(teamName)
             THEN CollectFrom(dataValues, teamNameIndex, orderNumIdx,
                      lastProcessedOrderNum, i + 1, TRUE,
                      [newRecords |-> Append(acc.newRecords,
                                             [teamName |-> Trim(teamName),
                                              orderNumber |-> orderNum,
                                              rowNum |-> DATA_START_ROW + i]),
                       lastOrderNumber |-> IF Truthy(orderNum) THEN orderNum
                                           ELSE acc.lastOrderNumber,
                       lastTeamName |-> IF Truthy(orderNum) THEN Trim(teamName)
                                        ELSE acc.lastTeamName])
             ELSE CollectFrom(dataValues, teamNameIndex, orderNumIdx,
                              lastProcessedOrderNum, i + 1, TRUE, acc)

\* the result is [threw, newRecords, lastOrderNumber, lastTeamName]; a sheet
\* without rows from dataStartRow on gives no lastTeamName
GetNewProcurementRecords(sheet, lastProcessedOrderNum) ==
    LET teamNameIndex == FindIndexIncluding(sheet.headers, COLUMN_DEF.TEAM_NAME)
        orderNumIdx   == FindIndexIncluding(sheet.headers, ORDER_NUMBER)
        nothing       == [newRecords |-> <<>>, lastOrderNumber |-> lastProcessedOrderNum,
                          lastTeamName |-> <<>>]
    IN  IF ~sheet.exists \/ teamNameIndex = -1 \/ orderNumIdx = -1
        THEN [threw |-> TRUE, result |-> nothing]
        ELSE IF sheet.rows = <<>>
        THEN [threw |-> FALSE, result |-> nothing]
        ELSE [threw |-> FALSE,
              result |-> CollectFrom(sheet.rows, teamNameIndex, orderNumIdx,
                                     lastProcessedOrderNum, 0,
                                     ~Truthy(lastProcessedOrderNum), nothing)]

\* updateLastProcessedOrderNumber: a new row under the header
UpdateLastProcessedOrderNumber(sheet, orderNumber, teamName) ==
    IF ~Truthy(orderNumber) THEN sheet
    ELSE [exists |-> TRUE,
          rows |-> << <<(<<"TODAY">>), orderNumber, teamName>> >> \o sheet.rows]

\* what a run has read: the row numbers of its new records and the number of
\* rows the sheet had; recorded is set when the run advances the history
LogEntry(newRecords, rows) ==
    [rowNums  |-> {newRecords[i].rowNum : i \in 1..Len(newRecords)},
     rowCount |-> Len(rows),
     recorded |-> FALSE]

\* the rows outputDuplicateReport writes under its header
DuplicateReportRows(duplicates) ==
    [d \in 1..Len(duplicates) |->
        <<duplicates[d].type, duplicates[d].teamName,
          Concat(Join([k \in 1..Len(duplicates[d].rowNums) |->
                          Digits(duplicates[d].rowNums[k])], <<"SP", "COLON", "SP">>)),
          duplicates[d].matchTarget, duplicates[d].masterRow,
          duplicates[d].matchedKeyword>>]

----------------------------------------------------------------------------
(* Specification: runs of runIncrementalDuplicateCheck, one after another,  *)
(* with rows appended to the procurement sheet between runs; a throw ends   *)
(* the run in the catch block.                                              *)

MaxProcRows == 3

MaxRuns == 2

ProcHeaders == <<COLUMN_DEF.TEAM_NAME, ORDER_NUMBER>>

\* procurement rows [team, order number]: two numbered teams, a cell to be
\* trimmed, a team without a number, an empty row
ProcPool ==
    {<<(<<"a">>), <<"1">> >>,
     <<(<<"x">>), <<"2", "SP">> >>,
     <<(<<"x">>), <<>> >>,
     <<(<<>>), <<>> >>}

\* the master list read from the mail-settings sheet
INCREMENTAL_MASTER == <<Master(<<"a">>, 2)>>

\* the history: no sheet, a lone header row, one earlier entry
HistoryPool ==
    {NO_SHEET,
     [exists |-> TRUE, rows |-> <<>>],
     [exists |-> TRUE, rows |-> << <<(<<"TODAY">>), <<"1">>, <<"a">> >> >>]}

IncInit ==
    /\ pc = "idle"
    /\ OnlyNormalizer
    /\ NormIdle /\ ReportIdle /\ UtilIdle /\ SyncIdle
    /\ \/ procurementSheet = [exists |-> FALSE, headers |-> <<>>, rows |-> <<>>]
       \/ procurementSheet = [exists |-> TRUE, headers |-> <<COLUMN_DEF.TEAM_NAME>>,
                              rows |-> <<>>]
       \/ \E k \in 0..MaxProcRows : \E rows \in [1..k -> ProcPool] :
              procurementSheet = [exists |-> TRUE, headers |-> ProcHeaders, rows |-> rows]
    /\ historySheet \in HistoryPool
    /\ lastOrderNumber = <<>>
    /\ lastTeamName = <<>>
    /\ duplicateReport = <<>>
    /\ runCount = 0
    /\ newRecordsLog = <<>>

\* a row is entered at the end of the procurement sheet
AppendProcurementRow ==
    /\ pc = "idle"
    /\ procurementSheet.exists
    /\ procurementSheet.headers = ProcHeaders
    /\ Len(procurementSheet.rows) < MaxProcRows
    /\ \E row \in ProcPool :
           procurementSheet' = [procurementSheet EXCEPT !.rows = Append(@, row)]
    /\ UNCHANGED <<pc, compareVars, emailVars, crossVars, matcherVars, normVars,
                   reportVars, utilVars, syncVars, historySheet, lastOrderNumber,
                   lastTeamName, duplicateReport, runCount, newRecordsLog>>

\* the menu item is chosen
StartRun ==
    /\ pc = "idle"
    /\ runCount < MaxRuns
    /\ runCount' = runCount + 1
    /\ pc' = "run_started"
    /\ newRecordList' = <<>>
    /\ masterTeamList' = <<>>
    /\ duplicateResults' = <<>>
    /\ lastOrderNumber' = <<>>
    /\ lastTeamName' = <<>>
    /\ UNCHANGED <<compareVars, emailVars, crossVars, normVars, reportVars, utilVars,
                   syncVars, procurementSheet, historySheet, duplicateReport,
                   newRecordsLog>>

\* const masterTeams = getMasterTeamList()
ReadMasterTeams ==
    /\ pc = "run_started"
    /\ masterTeamList' = INCREMENTAL_MASTER
    /\ pc' = "master_read"
    /\ UNCHANGED <<compareVars, emailVars, crossVars, newRecordList, duplicateResults,
                   laterVars>>

\* a mutation of ReadNewRecords: the history is advanced as soon as the new
\* records are read
ReadNewRecordsAdvancing ==
    /\ pc = "master_read"
    /\ LET history == GetHistorySheet(historySheet)
           r       == GetNewProcurementRecords(procurementSheet,
                          GetLastProcessedOrderNumber(history.rows))
       IN  /\ historySheet' = UpdateLastProcessedOrderNumber(history,
                                  r.result.lastOrderNumber, r.result.lastTeamName)
           /\ newRecordList' = r.result.newRecords
           /\ lastOrderNumber' = r.result.lastOrderNumber
           /\ lastTeamName' = r.result.lastTeamName
           /\ newRecordsLog' =
                  IF r.threw THEN newRecordsLog
                  ELSE Append(newRecordsLog,
                              LogEntry(r.result.newRecords, procurementSheet.rows))
           /\ pc' = IF r.threw THEN "idle" ELSE "records_read"
    /\ UNCHANGED <<compareVars, emailVars, crossVars, masterTeamList, duplicateResults,
                   normVars, reportVars, utilVars, syncVars, procurementSheet,
                   duplicateReport, runCount>>

\* const { newRecords, lastOrderNumber, lastTeamName } = getNewProcurementRecords()
ReadNewRecords ==
    /\ pc = "master_read"
    /\ LET history == GetHistorySheet(historySheet)
           r       == GetNewProcurementRecords(procurementSheet,
                          GetLastProcessedOrderNumber(history.rows))
       IN  /\ historySheet' = history
           /\ newRecordList' = r.result.newRecords
           /\ lastOrderNumber' = r.result.lastOrderNumber
           /\ lastTeamName' = r.result.lastTeamName
           /\ newRecordsLog' =
                  IF r.threw THEN newRecordsLog
                  ELSE Append(newRecordsLog,
                              LogEntry(r.result.newRecords, procurementSheet.rows))
           /\ pc' = IF r.threw THEN "idle" ELSE "records_read"
    /\ UNCHANGED <<compareVars, emailVars, crossVars, masterTeamList, duplicateResults,
                   normVars, reportVars, utilVars, syncVars, procurementSheet,
                   duplicateReport, runCount>>

\* if (newRecords.length === 0) return
ReturnWithoutRecords ==
    /\ pc = "records_read"
    /\ newRecordList = <<>>
    /\ pc' = "idle"
    /\ UNCHANGED <<compareVars, emailVars, crossVars, matcherVars, laterVars>>

\* const duplicates = checkTeamNameDuplicates(newRecords, masterTeams)
CheckNewRecords ==
    /\ pc = "records_read"
    /\ newRecordList # <<>>
    /\ duplicateResults' = CheckTeamNameDuplicates(newRecordList, masterTeamList)
    /\ pc' = "checked"
    /\ UNCHANGED <<compareVars, emailVars, crossVars, newRecordList, masterTeamList,
                   laterVars>>

\* if (duplicates.length > 0) outputDuplicateReport(duplicates)
OutputReport ==
    /\ pc = "checked"
    /\ duplicateReport' = IF Len(duplicateResults) > 0
                          THEN DuplicateReportRows(duplicateResults)
                          ELSE duplicateReport
    /\ pc' = "reported"
    /\ UNCHANGED <<compareVars, emailVars, crossVars, matcherVars, normVars, reportVars,
                   utilVars, syncVars, procurementSheet, historySheet, lastOrderNumber,
                   lastTeamName, runCount, newRecordsLog>>

\* if (lastOrderNumber && lastTeamName) updateLastProcessedOrderNumber(...)
AdvanceHistory ==
    /\ pc = "reported"
    /\ historySheet' =
           IF Truthy(lastOrderNumber) /\ Truthy(lastTeamName)
           THEN UpdateLastProcessedOrderNumber(historySheet, lastOrderNumber, lastTeamName)
           ELSE historySheet
    /\ newRecordsLog' =
           [newRecordsLog EXCEPT ![Len(newRecordsLog)].recorded =
               Truthy(lastOrderNumber) /\ Truthy(lastTeamName)]
    /\ pc' = "idle"
    /\ UNCHANGED <<compareVars, emailVars, crossVars, matcherVars, normVars, reportVars,
                   utilVars, syncVars, procurementSheet, lastOrderNumber, lastTeamName,
                   duplicateReport, runCount>>

\* a call to the spreadsheet service throws while the master list is read or
\* the report is written
ServiceThrows ==
    /\ pc \in {"run_started", "checked"}
    /\ pc' = "idle"
    /\ UNCHANGED <<compareVars, emailVars, crossVars, matcherVars, laterVars>>

IncNext ==
    \/ AppendProcurementRow
    \/ StartRun
    \/ ReadMasterTeams
    \/ ReadNewRecords
    \/ ReturnWithoutRecords
    \/ CheckNewRecords
    \/ OutputReport
    \/ AdvanceHistory
    \/ ServiceThrows

SpecIncremental == IncInit /\ [][IncNext]_vars

----------------------------------------------------------------------------
(* Properties of getNewProcurementRecords *)

RecordsRead == pc = "records_read"

\* the order number the history held when the sheet was read
StoredOrderNumber == GetLastProcessedOrderNumber(historySheet.rows)

ProcTeam(i) ==
    At(procurementSheet.rows[i], IndexOf(procurementSheet.headers, COLUMN_DEF.TEAM_NAME))

ProcOrder(i) ==
    Trim(At(procurementSheet.rows[i], IndexOf(procurementSheet.headers, ORDER_NUMBER)))

\* row i stands after the first row that carries the stored order number;
\* every row does when nothing is stored
AfterLastProcessed(i) ==
    StoredOrderNumber = <<>> \/ \E c \in 1..(i - 1) : ProcOrder(c) = StoredOrderNumber

\* the rows to be returned, in sheet order
NewRowIndexes ==
    SelectSeq([i \in 1..Len(procurementSheet.rows) |-> i],
              LAMBDA i : Truthy(ProcTeam(i)) /\ AfterLastProcessed(i))

\* the returned records that have an order number
NumberedRecords == SelectSeq(newRecordList, LAMBDA record : Truthy(record.orderNumber))

\* C28: the new records are the rows with a team name after the row carrying
\* the stored order number (all rows with a team name when nothing is stored),
\* in sheet order, each with its trimmed cells and rowNum = dataStartRow + row
\* offset; lastOrderNumber is the order number of the last record that has
\* one, or the stored value.
C28_NewRecordsAfterLastProcessed ==
    RecordsRead
    => /\ Len(newRecordList) = Len(NewRowIndexes)
       /\ \A k \in 1..Len(NewRowIndexes) :
              newRecordList[k] = [teamName    |-> Trim(ProcTeam(NewRowIndexes[k])),
                                  orderNumber |-> ProcOrder(NewRowIndexes[k]),
                                  rowNum      |-> DATA_START_ROW + NewRowIndexes[k] - 1]
       /\ lastOrderNumber = IF NumberedRecords = <<>> THEN StoredOrderNumber
                            ELSE NumberedRecords[Len(NumberedRecords)].orderNumber

\* with a stored order number, a row before its carrier was left out and a
\* later row was returned with a trimmed order number that becomes the last one
C28_Witness ==
    /\ RecordsRead
    /\ StoredOrderNumber # <<>>
    /\ Len(newRecordList) = 1
    /\ newRecordList[1].rowNum = DATA_START_ROW + 2
    /\ Truthy(ProcTeam(1))
    /\ ProcOrder(3) # At(procurementSheet.rows[3], 1)
    /\ lastOrderNumber = ProcOrder(3)
    /\ lastOrderNumber # StoredOrderNumber

----------------------------------------------------------------------------
(* Properties of runIncrementalDuplicateCheck *)

\* C29: a run that follows a run which recorded its last order number, over a
\* sheet with the same rows, collects no new records; and no row collected by
\* a run that recorded its last order number is collected by a later run.
C29_NoRowReportedTwice ==
    \A i, j \in 1..Len(newRecordsLog) :
        i < j /\ newRecordsLog[i].recorded
        => /\ newRecordsLog[i].rowNums \cap newRecordsLog[j].rowNums = {}
           /\ (j = i + 1 /\ newRecordsLog[j].rowCount = newRecordsLog[i].rowCount)
              => newRecordsLog[j].rowNums = {}

\* the same, for sheets on which every row with a team name has an order
\* number and no order number occurs twice
OrderNumbersCompleteAndUnique ==
    \A i \in 1..Len(procurementSheet.rows) :
        Truthy(ProcTeam(i))
        => /\ Truthy(ProcOrder(i))
           /\ \A j \in 1..Len(procurementSheet.rows) : ProcOrder(j) = ProcOrder(i) => j = i

NoRowReportedTwiceOnNumberedSheets ==
    OrderNumbersCompleteAndUnique => C29_NoRowReportedTwice

\* C30, as stated: the history sheet changes only in the last step of a run
\* that read new records, checked them and wrote its report; that step puts
\* one row on top, whose order number getLastProcessedOrderNumber returns.
C30_HistoryUntouchedUntilTheEnd ==
    [][historySheet' # historySheet
       => /\ pc = "reported"
          /\ Len(newRecordList) > 0
          /\ Len(historySheet'.rows) = Len(historySheet.rows) + 1
          /\ Tail(historySheet'.rows) = historySheet.rows
          /\ GetLastProcessedOrderNumber(historySheet'.rows) = lastOrderNumber]_vars

\* C30, amended: the entries of the history change only in the last step of a
\* run that read new records, checked them and wrote its report; that step
\* puts one row on top, whose order number getLastProcessedOrderNumber
\* returns; any other change of the history sheet is its creation, without
\* entries, by the run that reads it first.
C30_HistoryEntriesUntouchedUntilTheEnd ==
    [][/\ historySheet'.rows # historySheet.rows
          => /\ pc = "reported"
             /\ Len(newRecordList) > 0
             /\ Len(historySheet'.rows) = Len(historySheet.rows) + 1
             /\ Tail(historySheet'.rows) = historySheet.rows
             /\ GetLastProcessedOrderNumber(historySheet'.rows) = lastOrderNumber
       /\ (historySheet' # historySheet /\ historySheet'.rows = historySheet.rows)
          => /\ pc = "master_read"
             /\ ~historySheet.exists
             /\ historySheet' = [exists |-> TRUE, rows |-> <<>>]]_vars

\* a second entry has been put on top of the history after a report was
\* written, and it is the one read back
C30_Witness ==
    /\ pc = "idle"
    /\ Len(historySheet.rows) = 2
    /\ duplicateReport # <<>>
    /\ newRecordsLog[Len(newRecordsLog)].recorded
    /\ GetLastProcessedOrderNumber(historySheet.rows) = lastOrderNumber
    /\ historySheet.rows[1][2] # historySheet.rows[2][2]

\* a run ended in the catch block or without new records, with the history as
\* it was
RunEndedWithoutAdvancing ==
    /\ pc = "idle"
    /\ runCount > 0
    /\ historySheet.exists
    /\ historySheet.rows = <<>>
    /\ newRecordsLog # <<>>

====
